---- MODULE Spec2Model ----
(***************************************************************************)
(* chunk-data: chunk(), chunkFrom() and chunkFromAsync() of src/index.js   *)
(* as generators stepped by a consumer.  A generator's position (pc) is    *)
(* either a suspension point (before its first next(), at a yield, or, for *)
(* the async generator, at the await of the source) or a point inside the  *)
(* body.  Buffers live in a heap (mem); typed arrays are views             *)
(* [buf, off, len] into it, so aliasing between inputs and chunks is       *)
(* visible.                                                                *)
(***************************************************************************)
EXTENDS Integers, Sequences, FiniteSets, TLC

\* ---------------------------------------------------------------- bounds
MaxUnits == 3      \* items yielded by a source
MaxLen == 3        \* byte length of one input unit
MaxChunk == 3      \* largest valid chunk size tried
MaxData == 5       \* byte length of the single buffer given to chunk()
MaxAliasUnits == 2 \* items of a source in the specifications with a caller or two calls
MaxAlloc == 8      \* longest buffer the engine can allocate
MaxSafe == 100     \* largest chunk size: stands for Number.MAX_SAFE_INTEGER

VARIABLES
    mem,        \* heap: buffer id -> sequence of bytes
    arg,        \* first argument of the call (data / iterable)
    chunkSize,  \* second argument of the call
    ch,         \* the generator returned by chunk(arg, chunkSize)
    cf,         \* the generator returned by chunkFrom(arg, chunkSize)
    ca,         \* the generator returned by chunkFromAsync(arg, chunkSize)
    written     \* the caller's writes to input buffers, each with the number
                \* of chunks every generator had emitted before it

vars == <<mem, arg, chunkSize, ch, cf, ca, written>>

\* ---------------------------------------------------------------- values
Undefined == <<>>
NoView == [buf |-> Undefined, off |-> 0, len |-> 0]
Min(a, b) == IF a <= b THEN a ELSE b
Max(a, b) == IF a >= b THEN a ELSE b

\* A chunk size as the caller may pass it.  A JavaScript number that is an
\* integer within +-(2^53 - 1) is [t |-> "int", v |-> n]; every other value is
\* known by its kind only (1.5, NaN, Infinity, 'invalid', 2^53).
NonIntegerKinds == {"fraction", "NaN", "Infinity", "string", "unsafeInt"}
SizeValues ==
    {[t |-> "int", v |-> n] : n \in -1..MaxChunk}
    \cup {[t |-> k, v |-> 0] : k \in NonIntegerKinds}

\* The largest chunk size that passes the check of line 26.
LargeSizeValues == {[t |-> "int", v |-> MaxSafe]}

\* Number.isSafeInteger
isSafeInteger(x) == x.t = "int"

\* The element width of a view type (DataView has no elements: bytes).
BytesPerElement(type) == IF type = "Uint16Array" THEN 2 ELSE 1

\* The styles of view a caller builds: the view type and where the view starts
\* in its backing ArrayBuffer; a view that starts at byteOffset > 0 is also
\* followed by as many bytes that are not part of it.
ViewStyles ==
    { [type |-> "Uint8Array", byteOffset |-> 0],
      [type |-> "Uint16Array", byteOffset |-> 2],
      [type |-> "DataView", byteOffset |-> 1] }

NotAView == [isView |-> FALSE, type |-> "string", buffer |-> Undefined,
             byteOffset |-> 0, byteLength |-> 0]

\* The i-th view of a call: byteLength n, over its own backing buffer <<"in", i>>.
MkView(style, i, n) ==
    [isView |-> TRUE, type |-> style.type, buffer |-> <<"in", i>>,
     byteOffset |-> style.byteOffset, byteLength |-> n]

\* The backing buffer of that view; byte j of the buffer holds 10*i + j, so
\* that every input byte of a call is distinct and none is 0.
MkBacking(style, i, n) == [j \in 1..(n + 2 * style.byteOffset) |-> 10 * i + j]

\* Item i of a source, from its wanted length (-1: an item that is no view).
MkItem(style, i, n) == IF n < 0 THEN NotAView ELSE MkView(style, i, n)

\* ArrayBuffer.isView
isView(x) == x.isView

\* (mutant) line 2 with data.length for data.byteLength: the view's length in
\* elements is taken for its length in bytes.
toUint8Array_elements(data) ==
    [buf |-> data.buffer, off |-> data.byteOffset,
     len |-> data.byteLength \div BytesPerElement(data.type)]

\* src/index.js:1  toUint8Array: the bytes of the view, whatever its type
toUint8Array(data) ==
    [buf |-> data.buffer, off |-> data.byteOffset, len |-> data.byteLength]

\* TypedArray.prototype.subarray(begin, end) for 0 <= begin: both clamped to
\* the view's length; a view of the same buffer.
subarray(v, begin, end) ==
    LET b == Min(begin, v.len)
        e == Min(end, v.len)
    IN [buf |-> v.buf, off |-> v.off + b, len |-> Max(e - b, 0)]

\* The bytes seen through a view in heap m.
Bytes(m, v) == SubSeq(m[v.buf], v.off + 1, v.off + v.len)

\* TypedArray.prototype.set(source, at): heap m with the bytes bs written
\* into view target from index `at` (the caller checks that they fit).
set(m, target, bs, at) ==
    [m EXCEPT ![target.buf] =
        [j \in 1..Len(@) |->
            IF j > target.off + at /\ j <= target.off + at + Len(bs)
            THEN bs[j - target.off - at] ELSE @[j]]]

\* new Uint8Array(n): zero-filled
Zeros(n) == [j \in 1..n |-> 0]

\* ------------------------------------------------------------- arguments
\* What the first argument is: one view, a synchronous iterable of items (an
\* array or a generator), an async iterable of items, a string, or a value
\* that is not iterable at all (null, 123, {}).
\* (arg.kind: "view", "iterable", "asyncIterable", "string", "notIterable").

\* typeof x?.[Symbol.iterator] === 'function': arrays, generators, strings,
\* and typed arrays (a DataView has no iterator).
hasIterator(a) ==
    \/ a.kind \in {"iterable", "string"}
    \/ a.kind = "view" /\ a.items[1].type # "DataView"

\* typeof x?.[Symbol.asyncIterator] === 'function'
hasAsyncIterator(a) == a.kind = "asyncIterable"

\* What iterating the argument yields: the items of an iterable, the
\* characters of a string, the elements (numbers) of a typed array.
Yields(a) ==
    IF a.kind = "view"
    THEN [k \in 1..(a.items[1].byteLength \div BytesPerElement(a.items[1].type))
             |-> NotAView]
    ELSE a.items

\* ------------------------------------------------------------- generators
Gen0 ==
    [pc |-> "start", err |-> "none", out |-> <<>>,
     buffer |-> NoView, offset |-> 0, needed |-> 0,
     carryBuffer |-> NoView, carryLength |-> 0, pulled |-> 0, nalloc |-> 0,
     copies |-> <<>>, via |-> "none", asked |-> 0, answered |-> 0]

\* A generator that is over: it ran to its end, threw, or was closed by return().
Terminal(g) == g.pc \in {"done", "failed", "returned"}

\* A throw in a generator function: next() throws the error to its caller.
Fail(g, e) == [g EXCEPT !.pc = "failed", !.err = e, !.via = "throw"]

\* A throw in an async generator function: the promise that next() returned
\* is rejected with the error.
Reject(g, e) == [g EXCEPT !.pc = "failed", !.err = e, !.via = "reject"]

\* The lengths a style can give a view (a Uint16Array holds whole elements).
Lens(style, max) == {n \in 0..max : n % BytesPerElement(style.type) = 0}

InitArgs ==
    \/ \E style \in ViewStyles : \E n \in Lens(style, MaxData) :
          /\ arg = [kind |-> "view", items |-> <<MkView(style, 1, n)>>]
          /\ mem = [b \in {<<"in", 1>>} |-> MkBacking(style, 1, n)]
    \/ \E kind \in {"iterable", "asyncIterable"} : \E style \in ViewStyles :
       \E k \in 0..MaxUnits : \E lens \in [1..k -> {-1} \cup Lens(style, MaxLen)] :
          /\ arg = [kind |-> kind, items |-> [i \in 1..k |-> MkItem(style, i, lens[i])]]
          /\ mem = [b \in {<<"in", i>> : i \in {j \in 1..k : lens[j] >= 0}}
                      |-> MkBacking(style, b[2], lens[b[2]])]
    \/ \E k \in 0..1 :
          /\ arg = [kind |-> "string", items |-> [i \in 1..k |-> NotAView]]
          /\ mem = <<>>
    \/ /\ arg = [kind |-> "notIterable", items |-> <<>>]
       /\ mem = <<>>

\* (mutant) line 87 as a plain function that checks its arguments and then
\* returns the generator: an invalid call throws at once.
chunkFromAsync_call_eager(a) ==
    IF ~hasAsyncIterator(a) /\ ~hasIterator(a)
        THEN [Gen0 EXCEPT !.pc = "failed", !.err = "source", !.via = "call"]
    ELSE IF ~isSafeInteger(chunkSize) \/ chunkSize.v <= 0
        THEN [Gen0 EXCEPT !.pc = "failed", !.err = "chunkSize", !.via = "call"]
    ELSE Gen0

\* Line 87: the call of an async generator function runs none of its body; it
\* returns the generator object.
chunkFromAsync_call(a) == Gen0

Init ==
    /\ InitArgs
    /\ chunkSize \in SizeValues
    /\ ch = Gen0
    /\ cf = Gen0
    /\ ca = chunkFromAsync_call(arg)
    /\ written = {}

\* (mutant) buffers taken from a pool that all calls share: the k-th buffer of
\* one call is the k-th buffer of every other.
NewId_shared(owner, g) == <<"shared", g.nalloc + 1>>

\* new Uint8Array(n) by generator g of operation `owner`: the id of the fresh
\* buffer, the heap with it, and a view of all of it.
NewId(owner, g) == <<owner, g.nalloc + 1>>
Alloc(m, id, n) == [b \in DOMAIN m \cup {id} |-> IF b = id THEN Zeros(n) ELSE m[b]]
Whole(id, n) == [buf |-> id, off |-> 0, len |-> n]

\* new Uint8Array(n) throws a RangeError for a length the engine cannot
\* allocate (an invalid typed array length, or no memory for it).
CanAlloc(n) == n <= MaxAlloc

\* The byte copies one call of set() makes: for each byte of bs, which byte it
\* is, where it was read ("input" unit or "carry" buffer) and where it went
\* ("carry" buffer or "chunk"). A generator's field `copies` lists them all.
Copied(bs, src, dst) == [k \in 1..Len(bs) |-> [b |-> bs[k], src |-> src, dst |-> dst]]

\* ------------------------------------------------- chunk (src/index.js:5)
\* Each step of a generator maps its state g, and the heap m when it uses it,
\* to the next ones ([g |-> ..., m |-> ...]); a is the call's first argument.

\* (mutant) line 10 as `chunkSize < 0`: a chunk size of 0 is let through.
chunk_start_zeroAllowed(g, a) ==
    IF ~(a.kind = "view" /\ isView(a.items[1]))
        THEN Fail(g, "data")
    ELSE IF ~isSafeInteger(chunkSize) \/ chunkSize.v < 0
        THEN Fail(g, "chunkSize")
    ELSE [g EXCEPT !.pc = "loop", !.buffer = toUint8Array(a.items[1]),
                   !.offset = 0]

\* (mutant) chunk's two checks in the other order.
chunk_start_sizeFirst(g, a) ==
    IF ~isSafeInteger(chunkSize) \/ chunkSize.v <= 0
        THEN Fail(g, "chunkSize")
    ELSE IF ~(a.kind = "view" /\ isView(a.items[1]))
        THEN Fail(g, "data")
    ELSE [g EXCEPT !.pc = "loop", !.buffer = toUint8Array(a.items[1]),
                   !.offset = 0]

\* First next(): the argument checks, then lines 14 and 16's initialisation.
chunk_start(g, a) ==
    IF ~(a.kind = "view" /\ isView(a.items[1]))
        THEN Fail(g, "data")
    ELSE IF ~isSafeInteger(chunkSize) \/ chunkSize.v <= 0
        THEN Fail(g, "chunkSize")
    ELSE [g EXCEPT !.pc = "loop", !.buffer = toUint8Array(a.items[1]),
                   !.offset = 0]

\* (mutant) line 17 with slice() for subarray(): the chunk is a copy.
chunk_loop_copies(g, m) ==
    LET id == NewId("chunk", g)
        piece == subarray(g.buffer, g.offset, g.offset + chunkSize.v)
    IN  IF g.offset < g.buffer.len
            THEN [g |-> [g EXCEPT !.pc = "yield17", !.nalloc = @ + 1,
                                  !.out = Append(@, Whole(id, piece.len)),
                                  !.copies = @ \o Copied(Bytes(m, piece), "input", "chunk")],
                  m |-> set(Alloc(m, id, piece.len), Whole(id, piece.len),
                            Bytes(m, piece), 0)]
        ELSE [g |-> [g EXCEPT !.pc = "done"], m |-> m]

\* Lines 16-17: the loop test and the yield of the next slice.
chunk_loop(g, m) ==
    IF g.offset < g.buffer.len
        THEN [g |-> [g EXCEPT !.pc = "yield17",
                              !.out = Append(@, subarray(g.buffer, g.offset,
                                                         g.offset + chunkSize.v))],
              m |-> m]
    ELSE [g |-> [g EXCEPT !.pc = "done"], m |-> m]

\* (mutant) line 16 as `offset++`.
chunk_resume_byOne(g) == [g EXCEPT !.pc = "loop", !.offset = @ + 1]

\* next() at the yield of line 17: the loop's increment.
chunk_resume(g) == [g EXCEPT !.pc = "loop", !.offset = @ + chunkSize.v]

chunk_Start ==
    /\ ch.pc = "start"
    /\ ch' = chunk_start(ch, arg)
    /\ UNCHANGED <<mem, arg, chunkSize, cf, ca, written>>

chunk_Loop ==
    /\ ch.pc = "loop"
    /\ LET r == chunk_loop(ch, mem) IN ch' = r.g /\ mem' = r.m
    /\ UNCHANGED <<arg, chunkSize, cf, ca, written>>

chunk_Resume ==
    /\ ch.pc = "yield17"
    /\ ch' = chunk_resume(ch)
    /\ UNCHANGED <<mem, arg, chunkSize, cf, ca, written>>

\* --------------------------------------------- chunkFrom (src/index.js:21)
\* (mutant) line 26 as `chunkSize < 0`: a chunk size of 0 is let through.
chunkFrom_start_zeroAllowed(g, a) ==
    IF ~hasIterator(a) \/ a.kind = "string"
        THEN Fail(g, "source")
    ELSE IF ~isSafeInteger(chunkSize) \/ chunkSize.v < 0
        THEN Fail(g, "chunkSize")
    ELSE [g EXCEPT !.pc = "pull", !.carryBuffer = NoView, !.carryLength = 0]

\* First next(): the argument checks and the declarations of lines 30-31.
chunkFrom_start(g, a) ==
    IF ~hasIterator(a) \/ a.kind = "string"
        THEN Fail(g, "source")
    ELSE IF ~isSafeInteger(chunkSize) \/ chunkSize.v <= 0
        THEN Fail(g, "chunkSize")
    ELSE [g EXCEPT !.pc = "pull", !.carryBuffer = NoView, !.carryLength = 0]

\* (mutant) lines 52-55 merging in place: the head of the buffer is written
\* behind the pending bytes of the carry buffer, which is yielded itself.
chunkFrom_fill_inCarry(g, m, buffer) ==
    LET needed == chunkSize.v - g.carryLength
    IN  IF g.carryBuffer = NoView
            THEN [g |-> Fail(g, "TypeError"), m |-> m]
        ELSE IF buffer.len >= needed
            THEN [g |-> [g EXCEPT !.pc = "yield55", !.buffer = buffer, !.offset = 0,
                                  !.needed = needed,
                                  !.out = Append(@, g.carryBuffer),
                                  !.copies = @ \o Copied(Bytes(m, subarray(buffer, 0, needed)),
                                                          "input", "carry")],
                  m |-> set(m, g.carryBuffer, Bytes(m, subarray(buffer, 0, needed)),
                            g.carryLength)]
        ELSE IF g.carryLength + buffer.len > g.carryBuffer.len
            THEN [g |-> Fail(g, "RangeError"), m |-> m]
        ELSE [g |-> [g EXCEPT !.pc = "pull", !.buffer = buffer, !.offset = 0,
                              !.needed = needed,
                              !.carryLength = @ + buffer.len,
                              !.copies = @ \o Copied(Bytes(m, buffer), "input", "carry")],
              m |-> set(m, g.carryBuffer, Bytes(m, buffer), g.carryLength)]

\* (mutant) lines 59-63 by concatenation: a buffer too short to complete the
\* carry goes, behind the pending bytes, into a carry buffer allocated anew.
chunkFrom_fill_concat(g, m, buffer) ==
    LET needed == chunkSize.v - g.carryLength
        id == NewId("chunkFrom", g)
        out == Whole(id, chunkSize.v)
        pending == Bytes(m, subarray(g.carryBuffer, 0, g.carryLength))
        head == Bytes(m, subarray(buffer, 0, needed))
        m1 == set(Alloc(m, id, chunkSize.v), out, pending, 0)
    IN  IF g.carryBuffer = NoView
            THEN [g |-> Fail(g, "TypeError"), m |-> m]
        ELSE IF buffer.len >= needed /\ ~CanAlloc(chunkSize.v)
            THEN [g |-> Fail(g, "RangeError"), m |-> m]
        ELSE IF buffer.len >= needed
            THEN [g |-> [g EXCEPT !.pc = "yield55", !.buffer = buffer, !.offset = 0,
                                  !.needed = needed, !.nalloc = @ + 1,
                                  !.out = Append(@, out),
                                  !.copies = @ \o Copied(pending, "carry", "chunk")
                                               \o Copied(head, "input", "chunk")],
                  m |-> set(m1, out, head, g.carryLength)]
        ELSE [g |-> [g EXCEPT !.pc = "pull", !.buffer = buffer, !.offset = 0,
                              !.needed = needed, !.nalloc = @ + 1,
                              !.carryBuffer = out,
                              !.carryLength = @ + buffer.len,
                              !.copies = @ \o Copied(pending, "carry", "carry")
                                           \o Copied(Bytes(m, buffer), "input", "carry")],
              m |-> set(m1, out, Bytes(m, buffer), g.carryLength)]

\* (mutant) line 52 hoisted out of the loop: one output buffer is allocated
\* and filled again for every merged chunk.
chunkFrom_fill_reuseOut(g, m, buffer) ==
    LET needed == chunkSize.v - g.carryLength
        id == <<"chunkFrom", 0>>
        out == Whole(id, chunkSize.v)
        pending == Bytes(m, subarray(g.carryBuffer, 0, g.carryLength))
        head == Bytes(m, subarray(buffer, 0, needed))
        m1 == set(Alloc(m, id, chunkSize.v), out, pending, 0)
        m2 == set(m1, out, head, g.carryLength)
    IN  IF g.carryBuffer = NoView
            THEN [g |-> Fail(g, "TypeError"), m |-> m]
        ELSE IF buffer.len >= needed
            THEN [g |-> [g EXCEPT !.pc = "yield55", !.buffer = buffer, !.offset = 0,
                                  !.needed = needed,
                                  !.out = Append(@, out),
                                  !.copies = @ \o Copied(pending, "carry", "chunk")
                                               \o Copied(head, "input", "chunk")],
                  m |-> m2]
        ELSE [g |-> [g EXCEPT !.pc = "pull", !.buffer = buffer, !.offset = 0,
                              !.needed = needed,
                              !.carryLength = @ + buffer.len,
                              !.copies = @ \o Copied(Bytes(m, buffer), "input", "carry")],
              m |-> set(m, g.carryBuffer, Bytes(m, buffer), g.carryLength)]

\* (mutant) line 61 as carryBuffer.set(buffer): a short unit is written over
\* the pending bytes and not after them.
chunkFrom_fill_overwrites(g, m, buffer) ==
    LET needed == chunkSize.v - g.carryLength
        id == NewId("chunkFrom", g)
        out == Whole(id, chunkSize.v)
        pending == Bytes(m, subarray(g.carryBuffer, 0, g.carryLength))
        head == Bytes(m, subarray(buffer, 0, needed))
        m1 == set(Alloc(m, id, chunkSize.v), out, pending, 0)
        m2 == set(m1, out, head, g.carryLength)
    IN  IF g.carryBuffer = NoView
            THEN [g |-> Fail(g, "TypeError"), m |-> m]
        ELSE IF buffer.len >= needed
            THEN [g |-> [g EXCEPT !.pc = "yield55", !.buffer = buffer, !.offset = 0,
                                  !.needed = needed, !.nalloc = @ + 1,
                                  !.out = Append(@, out),
                                  !.copies = @ \o Copied(pending, "carry", "chunk")
                                               \o Copied(head, "input", "chunk")],
                  m |-> m2]
        ELSE [g |-> [g EXCEPT !.pc = "pull", !.buffer = buffer, !.offset = 0,
                              !.needed = needed,
                              !.carryLength = @ + buffer.len,
                              !.copies = @ \o Copied(Bytes(m, buffer), "input", "carry")],
              m |-> set(m, g.carryBuffer, Bytes(m, buffer), 0)]

\* Lines 48-65: a pending carry and a non-empty buffer.
chunkFrom_fill(g, m, buffer) ==
    LET needed == chunkSize.v - g.carryLength
        id == NewId("chunkFrom", g)
        out == Whole(id, chunkSize.v)
        pending == Bytes(m, subarray(g.carryBuffer, 0, g.carryLength))
        head == Bytes(m, subarray(buffer, 0, needed))
        m1 == set(Alloc(m, id, chunkSize.v), out, pending, 0)
        m2 == set(m1, out, head, g.carryLength)
    IN  IF g.carryBuffer = NoView
            THEN [g |-> Fail(g, "TypeError"), m |-> m]
        ELSE IF buffer.len >= needed /\ ~CanAlloc(chunkSize.v)
            THEN [g |-> Fail(g, "RangeError"), m |-> m]
        ELSE IF buffer.len >= needed
            THEN [g |-> [g EXCEPT !.pc = "yield55", !.buffer = buffer, !.offset = 0,
                                  !.needed = needed, !.nalloc = @ + 1,
                                  !.out = Append(@, out),
                                  !.copies = @ \o Copied(pending, "carry", "chunk")
                                               \o Copied(head, "input", "chunk")],
                  m |-> m2]
        ELSE IF g.carryLength + buffer.len > g.carryBuffer.len
            THEN [g |-> Fail(g, "RangeError"), m |-> m]
        ELSE [g |-> [g EXCEPT !.pc = "pull", !.buffer = buffer, !.offset = 0,
                              !.needed = needed,
                              !.carryLength = @ + buffer.len,
                              !.copies = @ \o Copied(Bytes(m, buffer), "input", "carry")],
              m |-> set(m, g.carryBuffer, Bytes(m, buffer), g.carryLength)]

\* (mutant) lines 34-36 as `continue`: an item that is no view is skipped like
\* an empty buffer.
chunkFrom_pull_skipsNonViews(g, m, a) ==
    LET items == Yields(a)
        part == items[g.pulled + 1]
        g1 == [g EXCEPT !.pulled = @ + 1]
        buffer == toUint8Array(part)
    IN  IF g.pulled >= Len(items)
            THEN [g |-> [g EXCEPT !.pc = "final"], m |-> m]
        ELSE IF ~isView(part)
            THEN [g |-> g1, m |-> m]
        ELSE IF buffer.len = 0
            THEN [g |-> [g1 EXCEPT !.buffer = buffer], m |-> m]
        ELSE IF g.carryLength > 0
            THEN chunkFrom_fill(g1, m, buffer)
        ELSE [g |-> [g1 EXCEPT !.pc = "slices", !.buffer = buffer, !.offset = 0],
              m |-> m]

\* (mutant) line 42 as `break`: a zero-length unit ends the loop.
chunkFrom_pull_emptyEnds(g, m, a) ==
    LET items == Yields(a)
        part == items[g.pulled + 1]
        g1 == [g EXCEPT !.pulled = @ + 1]
        buffer == toUint8Array(part)
    IN  IF g.pulled >= Len(items)
            THEN [g |-> [g EXCEPT !.pc = "final"], m |-> m]
        ELSE IF ~isView(part)
            THEN [g |-> Fail(g1, "item"), m |-> m]
        ELSE IF buffer.len = 0
            THEN [g |-> [g1 EXCEPT !.pc = "final", !.buffer = buffer], m |-> m]
        ELSE IF g.carryLength > 0
            THEN chunkFrom_fill(g1, m, buffer)
        ELSE [g |-> [g1 EXCEPT !.pc = "slices", !.buffer = buffer, !.offset = 0],
              m |-> m]

\* Lines 33-65: the loop head pulls the next item of the iterable and runs the
\* body down to the yield of line 55, the slice loop of line 68, or the next
\* pull.
chunkFrom_pull(g, m, a) ==
    LET items == Yields(a)
        part == items[g.pulled + 1]
        g1 == [g EXCEPT !.pulled = @ + 1]
        buffer == toUint8Array(part)
    IN  IF g.pulled >= Len(items)
            THEN [g |-> [g EXCEPT !.pc = "final"], m |-> m]
        ELSE IF ~isView(part)
            THEN [g |-> Fail(g1, "item"), m |-> m]
        ELSE IF buffer.len = 0
            THEN [g |-> [g1 EXCEPT !.buffer = buffer], m |-> m]
        ELSE IF g.carryLength > 0
            THEN chunkFrom_fill(g1, m, buffer)
        ELSE [g |-> [g1 EXCEPT !.pc = "slices", !.buffer = buffer, !.offset = 0],
              m |-> m]

\* (mutant) line 57 left out: the bytes merged into the chunk are read again.
chunkFrom_resume55_noAdvance(g) ==
    [g EXCEPT !.pc = "slices", !.carryLength = 0, !.offset = 0]

\* (mutant) line 56 left out: the carry buffer still counts as filled after its
\* bytes went out in the merged chunk.
chunkFrom_resume55_keepsCarry(g) ==
    [g EXCEPT !.pc = "slices", !.offset = g.needed]

\* next() at the yield of line 55: lines 56-57.
chunkFrom_resume55(g) ==
    [g EXCEPT !.pc = "slices", !.carryLength = 0, !.offset = g.needed]

\* (mutant) line 77 as buffer.set(...): the remainder is written to the start
\* of the input buffer and not to the carry buffer.
chunkFrom_remainder_intoInput(g, m) ==
    LET id == NewId("chunkFrom", g)
        fresh == g.carryBuffer = NoView
        carryBuffer == IF fresh THEN Whole(id, chunkSize.v) ELSE g.carryBuffer
        m1 == IF fresh THEN Alloc(m, id, chunkSize.v) ELSE m
        remainder == g.buffer.len - g.offset
        rest == Bytes(m, subarray(g.buffer, g.offset, g.buffer.len))
    IN  IF fresh /\ ~CanAlloc(chunkSize.v)
            THEN [g |-> Fail(g, "RangeError"), m |-> m]
        ELSE IF remainder > carryBuffer.len
            THEN [g |-> Fail([g EXCEPT !.carryBuffer = carryBuffer,
                                       !.nalloc = IF fresh THEN @ + 1 ELSE @],
                             "RangeError"),
                  m |-> m1]
        ELSE [g |-> [g EXCEPT !.pc = "pull", !.carryBuffer = carryBuffer,
                              !.nalloc = IF fresh THEN @ + 1 ELSE @,
                              !.carryLength = remainder,
                              !.copies = @ \o Copied(rest, "input", "carry")],
              m |-> set(m1, g.buffer, rest, 0)]

\* (mutant) line 74 with `=` for `||=`: every remainder gets a new carry buffer.
chunkFrom_remainder_realloc(g, m) ==
    LET id == NewId("chunkFrom", g)
        carryBuffer == Whole(id, chunkSize.v)
        m1 == Alloc(m, id, chunkSize.v)
        remainder == g.buffer.len - g.offset
        rest == Bytes(m, subarray(g.buffer, g.offset, g.buffer.len))
    IN  [g |-> [g EXCEPT !.pc = "pull", !.carryBuffer = carryBuffer,
                         !.nalloc = @ + 1,
                         !.carryLength = remainder,
                         !.copies = @ \o Copied(rest, "input", "carry")],
         m |-> set(m1, carryBuffer, rest, 0)]

\* (mutant) line 74 left out: the carry buffer is never allocated, and line 77
\* calls set() on undefined.
chunkFrom_remainder_noAlloc(g, m) ==
    LET remainder == g.buffer.len - g.offset
        rest == Bytes(m, subarray(g.buffer, g.offset, g.buffer.len))
    IN  IF g.carryBuffer = NoView
            THEN [g |-> Fail(g, "TypeError"), m |-> m]
        ELSE [g |-> [g EXCEPT !.pc = "pull", !.carryLength = remainder,
                              !.copies = @ \o Copied(rest, "input", "carry")],
              m |-> set(m, g.carryBuffer, rest, 0)]

\* Lines 73-79: the remainder of the buffer goes to the carry buffer, which is
\* allocated on first use.
chunkFrom_remainder(g, m) ==
    LET id == NewId("chunkFrom", g)
        fresh == g.carryBuffer = NoView
        carryBuffer == IF fresh THEN Whole(id, chunkSize.v) ELSE g.carryBuffer
        m1 == IF fresh THEN Alloc(m, id, chunkSize.v) ELSE m
        remainder == g.buffer.len - g.offset
        rest == Bytes(m, subarray(g.buffer, g.offset, g.buffer.len))
    IN  IF fresh /\ ~CanAlloc(chunkSize.v)
            THEN [g |-> Fail(g, "RangeError"), m |-> m]
        ELSE IF remainder > carryBuffer.len
            THEN [g |-> Fail([g EXCEPT !.carryBuffer = carryBuffer,
                                       !.nalloc = IF fresh THEN @ + 1 ELSE @],
                             "RangeError"),
                  m |-> m1]
        ELSE [g |-> [g EXCEPT !.pc = "pull", !.carryBuffer = carryBuffer,
                              !.nalloc = IF fresh THEN @ + 1 ELSE @,
                              !.carryLength = remainder,
                              !.copies = @ \o Copied(rest, "input", "carry")],
              m |-> set(m1, carryBuffer, rest, 0)]

\* (mutant) line 68 as `offset + chunkSize < buffer.length`: a buffer's last
\* full chunk goes through the carry buffer.
chunkFrom_slices_strict(g, m) ==
    IF g.offset + chunkSize.v < g.buffer.len
        THEN [g |-> [g EXCEPT !.pc = "yield69",
                              !.out = Append(@, subarray(g.buffer, g.offset,
                                                         g.offset + chunkSize.v))],
              m |-> m]
    ELSE IF g.offset < g.buffer.len
        THEN chunkFrom_remainder(g, m)
    ELSE [g |-> [g EXCEPT !.pc = "pull"], m |-> m]

\* (mutant) line 69 with slice() for subarray(): the chunk is a copy.
chunkFrom_slices_copies(g, m) ==
    LET id == NewId("chunkFrom", g)
        piece == subarray(g.buffer, g.offset, g.offset + chunkSize.v)
    IN  IF g.offset + chunkSize.v <= g.buffer.len
            THEN [g |-> [g EXCEPT !.pc = "yield69", !.nalloc = @ + 1,
                                  !.out = Append(@, Whole(id, piece.len)),
                                  !.copies = @ \o Copied(Bytes(m, piece), "input", "chunk")],
                  m |-> set(Alloc(m, id, piece.len), Whole(id, piece.len),
                            Bytes(m, piece), 0)]
        ELSE IF g.offset < g.buffer.len
            THEN chunkFrom_remainder(g, m)
        ELSE [g |-> [g EXCEPT !.pc = "pull"], m |-> m]

\* Lines 68-79: the slice loop's test; a full slice is yielded, otherwise the
\* remainder is saved and the body ends.
chunkFrom_slices(g, m) ==
    IF g.offset + chunkSize.v <= g.buffer.len
        THEN [g |-> [g EXCEPT !.pc = "yield69",
                              !.out = Append(@, subarray(g.buffer, g.offset,
                                                         g.offset + chunkSize.v))],
              m |-> m]
    ELSE IF g.offset < g.buffer.len
        THEN chunkFrom_remainder(g, m)
    ELSE [g |-> [g EXCEPT !.pc = "pull"], m |-> m]

\* (mutant) a `break` after line 69: the rest of the buffer is left behind and
\* the next item is pulled.
chunkFrom_resume69_break(g) == [g EXCEPT !.pc = "pull", !.offset = @ + chunkSize.v]

\* next() at the yield of line 69: the loop's increment.
chunkFrom_resume69(g) == [g EXCEPT !.pc = "slices", !.offset = @ + chunkSize.v]

\* (mutant) line 82 as `carryLength >= 0`: an empty carry is yielded too.
chunkFrom_final_emptyToo(g) ==
    IF g.carryLength >= 0
        THEN IF g.carryBuffer = NoView
                THEN Fail(g, "TypeError")
             ELSE [g EXCEPT !.pc = "yield83",
                            !.out = Append(@, subarray(g.carryBuffer, 0, g.carryLength))]
    ELSE [g EXCEPT !.pc = "done"]

\* Lines 82-84: the pending carry is yielded as a view of the carry buffer.
chunkFrom_final(g) ==
    IF g.carryLength > 0
        THEN IF g.carryBuffer = NoView
                THEN Fail(g, "TypeError")
             ELSE [g EXCEPT !.pc = "yield83",
                            !.out = Append(@, subarray(g.carryBuffer, 0, g.carryLength))]
    ELSE [g EXCEPT !.pc = "done"]

\* next() at the yield of line 83: the generator returns.
chunkFrom_resume83(g) == [g EXCEPT !.pc = "done"]

\* chunkFrom(a, chunkSize) collected by a consumer that pulls to the end: the
\* steps above from state g and heap m until the generator is over.
RECURSIVE chunkFrom_collect(_, _, _)
chunkFrom_collect(g, m, a) ==
    IF Terminal(g) THEN [g |-> g, m |-> m]
    ELSE LET r == CASE g.pc = "start" -> [g |-> chunkFrom_start(g, a), m |-> m]
                    [] g.pc = "pull" -> chunkFrom_pull(g, m, a)
                    [] g.pc = "yield55" -> [g |-> chunkFrom_resume55(g), m |-> m]
                    [] g.pc = "slices" -> chunkFrom_slices(g, m)
                    [] g.pc = "yield69" -> [g |-> chunkFrom_resume69(g), m |-> m]
                    [] g.pc = "final" -> [g |-> chunkFrom_final(g), m |-> m]
                    [] g.pc = "yield83" -> [g |-> chunkFrom_resume83(g), m |-> m]
         IN chunkFrom_collect(r.g, r.m, a)

chunkFrom_Start ==
    /\ cf.pc = "start"
    /\ cf' = chunkFrom_start(cf, arg)
    /\ UNCHANGED <<mem, arg, chunkSize, ch, ca, written>>

chunkFrom_Pull ==
    /\ cf.pc = "pull"
    /\ LET r == chunkFrom_pull(cf, mem, arg) IN cf' = r.g /\ mem' = r.m
    /\ UNCHANGED <<arg, chunkSize, ch, ca, written>>

chunkFrom_Resume55 ==
    /\ cf.pc = "yield55"
    /\ cf' = chunkFrom_resume55(cf)
    /\ UNCHANGED <<mem, arg, chunkSize, ch, ca, written>>

chunkFrom_Slices ==
    /\ cf.pc = "slices"
    /\ LET r == chunkFrom_slices(cf, mem) IN cf' = r.g /\ mem' = r.m
    /\ UNCHANGED <<arg, chunkSize, ch, ca, written>>

chunkFrom_Resume69 ==
    /\ cf.pc = "yield69"
    /\ cf' = chunkFrom_resume69(cf)
    /\ UNCHANGED <<mem, arg, chunkSize, ch, ca, written>>

chunkFrom_Final ==
    /\ cf.pc = "final"
    /\ cf' = chunkFrom_final(cf)
    /\ UNCHANGED <<mem, arg, chunkSize, ch, ca, written>>

chunkFrom_Resume83 ==
    /\ cf.pc = "yield83"
    /\ cf' = chunkFrom_resume83(cf)
    /\ UNCHANGED <<mem, arg, chunkSize, ch, ca, written>>

\* --------------------------------------- chunkFromAsync (src/index.js:87)
\* The same steps as chunkFrom, written again from the async function's own
\* lines; the one new position is "await", between asking the source for an
\* item and getting it.

\* First next(): the argument checks and the declarations of lines 96-97.
chunkFromAsync_start(g, a) ==
    IF ~hasAsyncIterator(a) /\ ~hasIterator(a)
        THEN Reject(g, "source")
    ELSE IF ~isSafeInteger(chunkSize) \/ chunkSize.v <= 0
        THEN Reject(g, "chunkSize")
    ELSE [g EXCEPT !.pc = "pull", !.carryBuffer = NoView, !.carryLength = 0]

\* Lines 114-131: a pending carry and a non-empty buffer.
chunkFromAsync_fill(g, m, buffer) ==
    LET needed == chunkSize.v - g.carryLength
        id == NewId("chunkFromAsync", g)
        out == Whole(id, chunkSize.v)
        pending == Bytes(m, subarray(g.carryBuffer, 0, g.carryLength))
        head == Bytes(m, subarray(buffer, 0, needed))
        m1 == set(Alloc(m, id, chunkSize.v), out, pending, 0)
        m2 == set(m1, out, head, g.carryLength)
    IN  IF g.carryBuffer = NoView
            THEN [g |-> Reject(g, "TypeError"), m |-> m]
        ELSE IF buffer.len >= needed /\ ~CanAlloc(chunkSize.v)
            THEN [g |-> Reject(g, "RangeError"), m |-> m]
        ELSE IF buffer.len >= needed
            THEN [g |-> [g EXCEPT !.pc = "yield121", !.buffer = buffer, !.offset = 0,
                                  !.needed = needed, !.nalloc = @ + 1,
                                  !.out = Append(@, out),
                                  !.copies = @ \o Copied(pending, "carry", "chunk")
                                               \o Copied(head, "input", "chunk")],
                  m |-> m2]
        ELSE IF g.carryLength + buffer.len > g.carryBuffer.len
            THEN [g |-> Reject(g, "RangeError"), m |-> m]
        ELSE [g |-> [g EXCEPT !.pc = "pull", !.buffer = buffer, !.offset = 0,
                              !.needed = needed,
                              !.carryLength = @ + buffer.len,
                              !.copies = @ \o Copied(Bytes(m, buffer), "input", "carry")],
              m |-> set(m, g.carryBuffer, Bytes(m, buffer), g.carryLength)]

\* (mutant) a prefetching loop head: the item after the next is asked for too.
chunkFromAsync_request_prefetch(g) == [g EXCEPT !.pc = "await", !.asked = @ + 2]

\* Line 99, first half: for await asks the source for its next item and the
\* generator waits for the answer.
chunkFromAsync_request(g) == [g EXCEPT !.pc = "await", !.asked = @ + 1]

\* Lines 99-131: the source answers (an item, or the end) and the body runs
\* down to the yield of line 121, the slice loop of line 134, or the next pull.
chunkFromAsync_pull(g, m, a) ==
    LET items == Yields(a)
        part == items[g.pulled + 1]
        g0 == [g EXCEPT !.answered = @ + 1]
        g1 == [g0 EXCEPT !.pulled = @ + 1]
        buffer == toUint8Array(part)
    IN  IF g.pulled >= Len(items)
            THEN [g |-> [g0 EXCEPT !.pc = "final"], m |-> m]
        ELSE IF ~isView(part)
            THEN [g |-> Reject(g1, "item"), m |-> m]
        ELSE IF buffer.len = 0
            THEN [g |-> [g1 EXCEPT !.pc = "pull", !.buffer = buffer], m |-> m]
        ELSE IF g.carryLength > 0
            THEN chunkFromAsync_fill(g1, m, buffer)
        ELSE [g |-> [g1 EXCEPT !.pc = "slices", !.buffer = buffer, !.offset = 0],
              m |-> m]

\* (mutant) line 123 left out: the bytes merged into the chunk are read again.
chunkFromAsync_resume121_noAdvance(g) ==
    [g EXCEPT !.pc = "slices", !.carryLength = 0, !.offset = 0]

\* next() at the yield of line 121: lines 122-123.
chunkFromAsync_resume121(g) ==
    [g EXCEPT !.pc = "slices", !.carryLength = 0, !.offset = g.needed]

\* Lines 139-145: the remainder of the buffer goes to the carry buffer, which is
\* allocated on first use.
chunkFromAsync_remainder(g, m) ==
    LET id == NewId("chunkFromAsync", g)
        fresh == g.carryBuffer = NoView
        carryBuffer == IF fresh THEN Whole(id, chunkSize.v) ELSE g.carryBuffer
        m1 == IF fresh THEN Alloc(m, id, chunkSize.v) ELSE m
        remainder == g.buffer.len - g.offset
        rest == Bytes(m, subarray(g.buffer, g.offset, g.buffer.len))
    IN  IF fresh /\ ~CanAlloc(chunkSize.v)
            THEN [g |-> Reject(g, "RangeError"), m |-> m]
        ELSE IF remainder > carryBuffer.len
            THEN [g |-> Reject([g EXCEPT !.carryBuffer = carryBuffer,
                                       !.nalloc = IF fresh THEN @ + 1 ELSE @],
                             "RangeError"),
                  m |-> m1]
        ELSE [g |-> [g EXCEPT !.pc = "pull", !.carryBuffer = carryBuffer,
                              !.nalloc = IF fresh THEN @ + 1 ELSE @,
                              !.carryLength = remainder,
                              !.copies = @ \o Copied(rest, "input", "carry")],
              m |-> set(m1, carryBuffer, rest, 0)]

\* (mutant) line 134 as `offset + chunkSize < buffer.length`: a buffer's last
\* full chunk goes through the carry buffer.
chunkFromAsync_slices_strict(g, m) ==
    IF g.offset + chunkSize.v < g.buffer.len
        THEN [g |-> [g EXCEPT !.pc = "yield135",
                              !.out = Append(@, subarray(g.buffer, g.offset,
                                                         g.offset + chunkSize.v))],
              m |-> m]
    ELSE IF g.offset < g.buffer.len
        THEN chunkFromAsync_remainder(g, m)
    ELSE [g |-> [g EXCEPT !.pc = "pull"], m |-> m]

\* Lines 134-145: the slice loop's test; a full slice is yielded, otherwise the
\* remainder is saved and the body ends.
chunkFromAsync_slices(g, m) ==
    IF g.offset + chunkSize.v <= g.buffer.len
        THEN [g |-> [g EXCEPT !.pc = "yield135",
                              !.out = Append(@, subarray(g.buffer, g.offset,
                                                         g.offset + chunkSize.v))],
              m |-> m]
    ELSE IF g.offset < g.buffer.len
        THEN chunkFromAsync_remainder(g, m)
    ELSE [g |-> [g EXCEPT !.pc = "pull"], m |-> m]

\* next() at the yield of line 135: the loop's increment.
chunkFromAsync_resume135(g) == [g EXCEPT !.pc = "slices", !.offset = @ + chunkSize.v]

\* Lines 148-150: the pending carry is yielded as a view of the carry buffer.
chunkFromAsync_final(g) ==
    IF g.carryLength > 0
        THEN IF g.carryBuffer = NoView
                THEN Reject(g, "TypeError")
             ELSE [g EXCEPT !.pc = "yield149",
                            !.out = Append(@, subarray(g.carryBuffer, 0, g.carryLength))]
    ELSE [g EXCEPT !.pc = "done"]

\* next() at the yield of line 149: the generator returns.
chunkFromAsync_resume149(g) == [g EXCEPT !.pc = "done"]

\* chunkFromAsync(a, chunkSize) collected by a consumer that pulls to the end
\* (for await): the steps above from state g and heap m until the generator
\* is over.
RECURSIVE chunkFromAsync_collect(_, _, _)
chunkFromAsync_collect(g, m, a) ==
    IF Terminal(g) THEN [g |-> g, m |-> m]
    ELSE LET r == CASE g.pc = "start" -> [g |-> chunkFromAsync_start(g, a), m |-> m]
                    [] g.pc = "pull" -> [g |-> chunkFromAsync_request(g), m |-> m]
                    [] g.pc = "await" -> chunkFromAsync_pull(g, m, a)
                    [] g.pc = "yield121" -> [g |-> chunkFromAsync_resume121(g), m |-> m]
                    [] g.pc = "slices" -> chunkFromAsync_slices(g, m)
                    [] g.pc = "yield135" -> [g |-> chunkFromAsync_resume135(g), m |-> m]
                    [] g.pc = "final" -> [g |-> chunkFromAsync_final(g), m |-> m]
                    [] g.pc = "yield149" -> [g |-> chunkFromAsync_resume149(g), m |-> m]
         IN chunkFromAsync_collect(r.g, r.m, a)

chunkFromAsync_Start ==
    /\ ca.pc = "start"
    /\ ca' = chunkFromAsync_start(ca, arg)
    /\ UNCHANGED <<mem, arg, chunkSize, ch, cf, written>>

chunkFromAsync_Request ==
    /\ ca.pc = "pull"
    /\ ca' = chunkFromAsync_request(ca)
    /\ UNCHANGED <<mem, arg, chunkSize, ch, cf, written>>

chunkFromAsync_Pull ==
    /\ ca.pc = "await"
    /\ LET r == chunkFromAsync_pull(ca, mem, arg) IN ca' = r.g /\ mem' = r.m
    /\ UNCHANGED <<arg, chunkSize, ch, cf, written>>

chunkFromAsync_Resume121 ==
    /\ ca.pc = "yield121"
    /\ ca' = chunkFromAsync_resume121(ca)
    /\ UNCHANGED <<mem, arg, chunkSize, ch, cf, written>>

chunkFromAsync_Slices ==
    /\ ca.pc = "slices"
    /\ LET r == chunkFromAsync_slices(ca, mem) IN ca' = r.g /\ mem' = r.m
    /\ UNCHANGED <<arg, chunkSize, ch, cf, written>>

chunkFromAsync_Resume135 ==
    /\ ca.pc = "yield135"
    /\ ca' = chunkFromAsync_resume135(ca)
    /\ UNCHANGED <<mem, arg, chunkSize, ch, cf, written>>

chunkFromAsync_Final ==
    /\ ca.pc = "final"
    /\ ca' = chunkFromAsync_final(ca)
    /\ UNCHANGED <<mem, arg, chunkSize, ch, cf, written>>

chunkFromAsync_Resume149 ==
    /\ ca.pc = "yield149"
    /\ ca' = chunkFromAsync_resume149(ca)
    /\ UNCHANGED <<mem, arg, chunkSize, ch, cf, written>>

\* The caller runs the three operations on the same arguments one after the
\* other, each to its end.
Next ==
    \/ chunk_Start
    \/ chunk_Loop
    \/ chunk_Resume
    \/ Terminal(ch) /\ chunkFrom_Start
    \/ Terminal(ch) /\ chunkFrom_Pull
    \/ Terminal(ch) /\ chunkFrom_Resume55
    \/ Terminal(ch) /\ chunkFrom_Slices
    \/ Terminal(ch) /\ chunkFrom_Resume69
    \/ Terminal(ch) /\ chunkFrom_Final
    \/ Terminal(ch) /\ chunkFrom_Resume83
    \/ Terminal(cf) /\ chunkFromAsync_Start
    \/ Terminal(cf) /\ chunkFromAsync_Request
    \/ Terminal(cf) /\ chunkFromAsync_Pull
    \/ Terminal(cf) /\ chunkFromAsync_Resume121
    \/ Terminal(cf) /\ chunkFromAsync_Slices
    \/ Terminal(cf) /\ chunkFromAsync_Resume135
    \/ Terminal(cf) /\ chunkFromAsync_Final
    \/ Terminal(cf) /\ chunkFromAsync_Resume149

Spec == Init /\ [][Next]_vars

\* The calls of Init and those with the largest chunk size.
InitLarge ==
    /\ InitArgs
    /\ chunkSize \in SizeValues \cup LargeSizeValues
    /\ ch = Gen0
    /\ cf = Gen0
    /\ ca = chunkFromAsync_call(arg)
    /\ written = {}

SpecLarge == InitLarge /\ [][Next]_vars

\* The call of the README's example "Chunking an iterable of buffers":
\* chunkFrom([new Uint8Array(1000), new Uint8Array(2000)], 500).
ReadmeBuffers == <<1000, 2000>>
ReadmeChunkSize == 500
ReadmeCall ==
    /\ arg = [kind |-> "iterable",
              items |-> [i \in 1..Len(ReadmeBuffers) |->
                            MkView([type |-> "Uint8Array", byteOffset |-> 0], i,
                                   ReadmeBuffers[i])]]
    /\ mem = [b \in {<<"in", i>> : i \in 1..Len(ReadmeBuffers)} |->
                MkBacking([type |-> "Uint8Array", byteOffset |-> 0], b[2],
                          ReadmeBuffers[b[2]])]
    /\ chunkSize = [t |-> "int", v |-> ReadmeChunkSize]

\* The calls of Init and the README's.
InitReadme ==
    /\ \/ InitArgs /\ chunkSize \in SizeValues
       \/ ReadmeCall
    /\ ch = Gen0
    /\ cf = Gen0
    /\ ca = chunkFromAsync_call(arg)
    /\ written = {}

SpecReadme == InitReadme /\ [][Next]_vars

\* ------------------------------------------------------------ return()
\* The consumer closes a generator (return(), or a break out of for...of) while
\* the generator is suspended before its first next() or at a yield. No
\* try/finally surrounds a yield, so the generator is over at once, and the
\* for...of at line 33 (line 99) closes the source's iterator. A return()
\* during an outstanding next() of the async generator is queued by the
\* language until the generator yields: it is the return() at that yield.

\* (mutant) a `finally` around the loop that yields the pending carry.
chunkFrom_return_flushes(g) ==
    IF g.carryBuffer # NoView /\ g.carryLength > 0
        THEN [g EXCEPT !.pc = "returned",
                       !.out = Append(@, subarray(g.carryBuffer, 0, g.carryLength))]
    ELSE [g EXCEPT !.pc = "returned"]

chunkFrom_return(g) == [g EXCEPT !.pc = "returned"]

chunkFromAsync_return(g) == [g EXCEPT !.pc = "returned"]

chunkFrom_Return ==
    /\ cf.pc \in {"start", "yield55", "yield69", "yield83"}
    /\ cf' = chunkFrom_return(cf)
    /\ UNCHANGED <<mem, arg, chunkSize, ch, ca, written>>

chunkFromAsync_Return ==
    /\ ca.pc \in {"start", "yield121", "yield135", "yield149"}
    /\ ca' = chunkFromAsync_return(ca)
    /\ UNCHANGED <<mem, arg, chunkSize, ch, cf, written>>

NextCancel ==
    \/ Next
    \/ Terminal(ch) /\ chunkFrom_Return
    \/ Terminal(cf) /\ chunkFromAsync_Return

SpecCancel == Init /\ [][NextCancel]_vars

\* ------------------------------------------------------------ the caller
\* A generator runs only inside next(): the caller's own code runs while every
\* generator is suspended or finished.
Suspended(g) ==
    g.pc \in {"start", "await", "done", "failed", "yield17",
              "yield55", "yield69", "yield83", "yield121", "yield135", "yield149"}

\* The values the caller writes: no input byte and no fresh byte has them.
CallerBytes == {255}

\* The heap cells of the input views: <<buffer, index>>.
InputCells ==
    {c \in UNION {{<<arg.items[i].buffer, j>> : j \in 1..Len(mem[arg.items[i].buffer])}
                     : i \in {k \in 1..Len(arg.items) : arg.items[k].isView}} :
        \E i \in 1..Len(arg.items) :
            /\ arg.items[i].isView /\ arg.items[i].buffer = c[1]
            /\ c[2] > arg.items[i].byteOffset
            /\ c[2] <= arg.items[i].byteOffset + arg.items[i].byteLength}

\* The caller overwrites one byte of an input (once in a run).
CallerWrite ==
    /\ written = {}
    /\ Suspended(ch) /\ Suspended(cf) /\ Suspended(ca)
    /\ \E c \in InputCells : \E v \in CallerBytes :
          /\ mem' = [mem EXCEPT ![c[1]][c[2]] = v]
          /\ written' = {[buf |-> c[1], idx |-> c[2],
                          after |-> [chunk |-> Len(ch.out), chunkFrom |-> Len(cf.out),
                                     chunkFromAsync |-> Len(ca.out)]]}
    /\ UNCHANGED <<arg, chunkSize, ch, cf, ca>>

NextAlias == Next \/ CallerWrite

\* The calls whose chunks the caller can then look at: a view (for chunk) or
\* an iterable of views (for chunkFrom and chunkFromAsync), and a valid size.
InitAlias ==
    /\ Init
    /\ arg.kind \in {"view", "iterable"}
    /\ Len(arg.items) <= MaxAliasUnits
    /\ \A i \in 1..Len(arg.items) : arg.items[i].isView
    /\ chunkSize.t = "int" /\ chunkSize.v >= 1

SpecAlias == InitAlias /\ [][NextAlias]_vars

\* ------------------------------------------------------------ two calls
\* chunkFrom over an iterable and chunkFromAsync over another source, an async
\* iterable that yields the same views in reverse order, consumed at the same
\* time: the steps of the two generators in any interleaving.
Reverse(q) == [i \in 1..Len(q) |-> q[Len(q) + 1 - i]]
Other(a) == [kind |-> "asyncIterable", items |-> Reverse(a.items)]

chunkFromAsync_StartOther ==
    /\ ca.pc = "start"
    /\ ca' = chunkFromAsync_start(ca, Other(arg))
    /\ UNCHANGED <<mem, arg, chunkSize, ch, cf, written>>

chunkFromAsync_PullOther ==
    /\ ca.pc = "await"
    /\ LET r == chunkFromAsync_pull(ca, mem, Other(arg)) IN ca' = r.g /\ mem' = r.m
    /\ UNCHANGED <<arg, chunkSize, ch, cf, written>>

NextBoth ==
    \/ chunkFrom_Start
    \/ chunkFrom_Pull
    \/ chunkFrom_Resume55
    \/ chunkFrom_Slices
    \/ chunkFrom_Resume69
    \/ chunkFrom_Final
    \/ chunkFrom_Resume83
    \/ chunkFromAsync_StartOther
    \/ chunkFromAsync_Request
    \/ chunkFromAsync_PullOther
    \/ chunkFromAsync_Resume121
    \/ chunkFromAsync_Slices
    \/ chunkFromAsync_Resume135
    \/ chunkFromAsync_Final
    \/ chunkFromAsync_Resume149

InitBoth == InitAlias /\ arg.kind = "iterable"

SpecBoth == InitBoth /\ [][NextBoth]_vars

\* ================================================================ claims
\* The words of the claims, in terms of the call's arguments and the heap.
AllViews == \A i \in 1..Len(arg.items) : arg.items[i].isView
SizeOK == chunkSize.t = "int" /\ chunkSize.v >= 1
SyncSource == arg.kind = "iterable"
AsyncSource == arg.kind \in {"iterable", "asyncIterable"}
CeilDiv(x, y) == (x + y - 1) \div y

RECURSIVE Concat(_)
Concat(ss) == IF ss = <<>> THEN <<>> ELSE Head(ss) \o Concat(Tail(ss))

\* The bytes of input unit i now, and of the first k units in order.
UnitBytes(i) ==
    SubSeq(mem[arg.items[i].buffer], arg.items[i].byteOffset + 1,
           arg.items[i].byteOffset + arg.items[i].byteLength)
InputBytes(k) == Concat([i \in 1..k |-> UnitBytes(i)])
UnitLen(i) == arg.items[i].byteLength
RECURSIVE TotalLen(_)
TotalLen(k) == IF k = 0 THEN 0 ELSE UnitLen(k) + TotalLen(k - 1)

\* The bytes read now through the chunks a generator has emitted, in order.
Read(out) == Concat([i \in 1..Len(out) |-> Bytes(mem, out[i])])
IsPrefix(p, q) == Len(p) <= Len(q) /\ SubSeq(q, 1, Len(p)) = p

\* C1: for a source of views and a valid chunk size, chunkFrom and
\* chunkFromAsync run to completion, what they have emitted so far is always
\* a prefix of the concatenated input, and at completion it is all of it.
RoundTripOf(g) ==
    /\ Terminal(g) => g.pc = "done"
    /\ IsPrefix(Read(g.out), InputBytes(Len(arg.items)))
    /\ g.pc = "done" => Read(g.out) = InputBytes(Len(arg.items))
C1_RoundTrip ==
    (AllViews /\ SizeOK) =>
        /\ SyncSource => RoundTripOf(cf)
        /\ AsyncSource => RoundTripOf(ca)
\* A completed run over a zero-length unit, a unit shorter than the chunk size
\* and a unit longer than it.
C1_Witness ==
    /\ AllViews /\ SizeOK /\ SyncSource
    /\ cf.pc = "done" /\ ca.pc = "done" /\ Len(ca.out) >= 2
    /\ \E i, j, k \in 1..Len(arg.items) :
          /\ UnitLen(i) = 0
          /\ UnitLen(j) > 0 /\ UnitLen(j) < chunkSize.v
          /\ UnitLen(k) > chunkSize.v

\* C2: for a source of views of total length S and a valid chunk size c,
\* every chunk emitted has a length in 1..c, every chunk that is followed by
\* another has length exactly c, and a completed run has emitted
\* ceil(S / c) chunks (none when S = 0).
SizesOf(g) ==
    /\ \A i \in 1..Len(g.out) : g.out[i].len \in 1..chunkSize.v
    /\ \A i \in 1..(Len(g.out) - 1) : g.out[i].len = chunkSize.v
    /\ g.pc = "done" =>
          Len(g.out) = CeilDiv(TotalLen(Len(arg.items)), chunkSize.v)
C2_ChunkSizes ==
    (AllViews /\ SizeOK) =>
        /\ SyncSource => SizesOf(cf)
        /\ AsyncSource => SizesOf(ca)
\* A completed run of several chunks that ends in a short one.
C2_Witness ==
    /\ AllViews /\ SizeOK /\ SyncSource
    /\ cf.pc = "done" /\ ca.pc = "done"
    /\ Len(cf.out) >= 2 /\ cf.out[Len(cf.out)].len < chunkSize.v
    /\ Len(ca.out) >= 2 /\ ca.out[Len(ca.out)].len < chunkSize.v

\* C3: chunk on a view of byte length L with a valid chunk size c emits, in
\* order, the byte ranges [i*c, min((i+1)*c, L)) of the view, i = 0, 1, ...,
\* and ceil(L / c) of them in all: none for L = 0, one of length L for
\* 0 < L <= c.
C3_Range(i) ==
    [buf |-> arg.items[1].buffer,
     off |-> arg.items[1].byteOffset + (i - 1) * chunkSize.v,
     len |-> Min(chunkSize.v, UnitLen(1) - (i - 1) * chunkSize.v)]
C3_ChunkRanges ==
    (arg.kind = "view" /\ SizeOK) =>
        /\ Terminal(ch) => ch.pc = "done"
        /\ \A i \in 1..Len(ch.out) : ch.out[i] = C3_Range(i)
        /\ Len(ch.out) <= CeilDiv(UnitLen(1), chunkSize.v)
        /\ ch.pc = "done" => Len(ch.out) = CeilDiv(UnitLen(1), chunkSize.v)
\* A completed split into three or more chunks, the last one short, of a view
\* that does not start at the beginning of its buffer.
C3_Witness ==
    /\ arg.kind = "view" /\ SizeOK /\ ch.pc = "done"
    /\ arg.items[1].byteOffset > 0
    /\ Len(ch.out) >= 3 /\ ch.out[Len(ch.out)].len < chunkSize.v

\* C4: with a valid chunk size and a source whose k-th item is its first item
\* that is no view, chunkFrom and chunkFromAsync pull at most k items, and end
\* failed on the item: having pulled exactly k items and emitted exactly the
\* full chunks of items 1..k-1 (floor(T / c) chunks of length c holding the
\* first bytes of those items, T their total length) and no short chunk for the
\* bytes left in the carry buffer; a failed generator never changes again.
HasBad == \E i \in 1..Len(arg.items) : ~arg.items[i].isView
FirstBad ==
    CHOOSE k \in 1..Len(arg.items) :
        ~arg.items[k].isView /\ \A j \in 1..(k - 1) : arg.items[j].isView
FullBefore == TotalLen(FirstBad - 1) \div chunkSize.v
AbortOf(g) ==
    /\ g.pulled <= FirstBad
    /\ Len(g.out) <= FullBefore
    /\ Terminal(g) =>
          /\ g.pc = "failed" /\ g.err = "item"
          /\ g.pulled = FirstBad
          /\ Len(g.out) = FullBefore
          /\ \A i \in 1..Len(g.out) : g.out[i].len = chunkSize.v
          /\ Read(g.out) = SubSeq(InputBytes(FirstBad - 1), 1, FullBefore * chunkSize.v)
C4_Abort ==
    (HasBad /\ SizeOK) =>
        /\ SyncSource => AbortOf(cf)
        /\ AsyncSource => AbortOf(ca)
C4_LazyItemCheck ==
    /\ []C4_Abort
    /\ [][/\ cf.pc = "failed" => cf' = cf
          /\ ca.pc = "failed" => ca' = ca]_vars
\* Both have failed on the second or third item, after a chunk was emitted,
\* with bytes pending in the carry buffer and an item left unpulled.
C4_Witness ==
    /\ HasBad /\ SizeOK /\ SyncSource
    /\ cf.pc = "failed" /\ cf.err = "item" /\ ca.pc = "failed" /\ ca.err = "item"
    /\ Len(cf.out) >= 1 /\ cf.carryLength > 0 /\ ca.carryLength > 0
    /\ FirstBad < Len(arg.items)

\* C5: with a valid input (a view for chunk, an iterable of items for
\* chunkFrom, an iterable or async iterable for chunkFromAsync) and a chunk
\* size that is zero, negative, not an integer, NaN, infinite, not a number
\* or beyond the safe integers, the operation's first next() fails with the
\* chunk-size error: it never pulls an item and never emits a chunk.
RejectedOf(g) ==
    /\ g.pc \in {"start", "failed"}
    /\ g.pc = "failed" => g.err = "chunkSize"
    /\ g.pulled = 0 /\ g.out = <<>>
C5_SizeRejected ==
    ~SizeOK =>
        /\ arg.kind = "view" => RejectedOf(ch)
        /\ SyncSource => RejectedOf(cf)
        /\ AsyncSource => RejectedOf(ca)
\* A non-empty iterable and a chunk size of 2^53: both re-chunkers have failed.
C5_Witness ==
    /\ SyncSource /\ Len(arg.items) > 0 /\ AllViews
    /\ chunkSize.t = "unsafeInt"
    /\ cf.pc = "failed" /\ cf.err = "chunkSize"
    /\ ca.pc = "failed" /\ ca.err = "chunkSize"

\* C6: when the chunk size is invalid and the first argument is invalid too
\* (chunk: not a view; chunkFrom: not synchronously iterable, or a string;
\* chunkFromAsync: neither synchronously nor asynchronously iterable), the
\* operation fails with the error of the first argument.
FirstArgErrorOf(g, e) ==
    /\ g.pc \in {"start", "failed"}
    /\ g.pc = "failed" => g.err = e
C6_ValidationOrder ==
    ~SizeOK =>
        /\ arg.kind # "view" => FirstArgErrorOf(ch, "data")
        /\ (~hasIterator(arg) \/ arg.kind = "string") => FirstArgErrorOf(cf, "source")
        /\ (~hasIterator(arg) /\ ~hasAsyncIterator(arg)) => FirstArgErrorOf(ca, "source")
\* null and a chunk size of -1: all three have failed on the first argument.
C6_Witness ==
    /\ arg.kind = "notIterable" /\ chunkSize = [t |-> "int", v |-> -1]
    /\ ch.pc = "failed" /\ ch.err = "data"
    /\ cf.pc = "failed" /\ cf.err = "source"
    /\ ca.pc = "failed" /\ ca.err = "source"

\* What a chunk is, apart from which operation made it: a slice of an input
\* buffer, or a view of the n-th buffer the operation allocated.
IsSlice(v) == v.buf[1] = "in"
Shape(v) ==
    [slice |-> IsSlice(v), of |-> IF IsSlice(v) THEN v.buf ELSE <<"own", v.buf[2]>>,
     off |-> v.off, len |-> v.len]
\* Chunk i of outA read in heap mA is chunk i of outB read in heap mB.
SameChunk(outA, mA, outB, mB, i) ==
    /\ Shape(outA[i]) = Shape(outB[i])
    /\ Bytes(mA, outA[i]) = Bytes(mB, outB[i])
SameChunks(outA, mA, outB, mB) ==
    /\ Len(outA) = Len(outB)
    /\ \A i \in 1..Len(outA) : SameChunk(outA, mA, outB, mB, i)

\* The input buffers alone, and chunkFrom collected over the same units handed
\* over as a synchronous iterable.
InputHeap == [b \in {x \in DOMAIN mem : x[1] = "in"} |-> mem[b]]
SyncRun == chunkFrom_collect(Gen0, InputHeap, [arg EXCEPT !.kind = "iterable"])

\* C7: for views and a valid chunk size, whether the units reach
\* chunkFromAsync through an iterable or an async iterable, every chunk it has
\* emitted is the chunk chunkFrom emits at that place for the same units (same
\* length, same bytes, a slice of the same input range or a copy alike), and
\* when it completes it has emitted as many; on an iterable the two
\* generators themselves end with the same chunks.
C7_SyncAsyncOutput ==
    (AllViews /\ SizeOK) =>
        /\ (SyncSource /\ cf.pc = "done" /\ ca.pc = "done")
              => SameChunks(ca.out, mem, cf.out, mem)
        /\ AsyncSource =>
              LET r == SyncRun
              IN  /\ Terminal(ca) => ca.pc = r.g.pc
                  /\ Len(ca.out) <= Len(r.g.out)
                  /\ \A i \in 1..Len(ca.out) :
                        SameChunk(ca.out, mem, r.g.out, r.m, i)
                  /\ ca.pc = "done" => Len(ca.out) = Len(r.g.out)
\* Both have completed over the same iterable, with a copied chunk, a slice
\* and a final view of the carry buffer among the chunks.
C7_Witness ==
    /\ AllViews /\ SizeOK /\ SyncSource
    /\ cf.pc = "done" /\ ca.pc = "done" /\ Len(ca.out) >= 3
    /\ \E i, j \in 1..(Len(ca.out) - 1) : IsSlice(ca.out[i]) /\ ~IsSlice(ca.out[j])
    /\ ca.out[Len(ca.out)].len < chunkSize.v

\* C8 (as claimed): for every first argument that can be iterated
\* synchronously (an iterable, a typed array, a string) and every chunk size,
\* chunkFrom and chunkFromAsync end alike: both completed or both failed with
\* the same error, after the same chunks.
C8_SameOutcome ==
    (hasIterator(arg) /\ Terminal(cf) /\ Terminal(ca)) =>
        /\ cf.pc = ca.pc
        /\ cf.err = ca.err
        /\ SameChunks(ca.out, mem, cf.out, mem)

\* Where chunk i of a generator's output starts in the stream of emitted
\* bytes, and where unit j starts in the stream of input bytes.
RECURSIVE ChunkStart(_, _)
ChunkStart(out, i) == IF i = 1 THEN 0 ELSE ChunkStart(out, i - 1) + out[i - 1].len
UnitStart(j) == TotalLen(j - 1)
\* All the bytes of chunk i come from unit j.
WithinUnit(out, i, j) ==
    /\ out[i].len > 0
    /\ UnitStart(j) <= ChunkStart(out, i)
    /\ ChunkStart(out, i) + out[i].len <= UnitStart(j) + UnitLen(j)
\* Chunk i is a view of unit j's own storage at that place, and reads what the
\* unit holds there now.
SharesUnit(out, i, j) ==
    /\ out[i].buf = arg.items[j].buffer
    /\ out[i].off = arg.items[j].byteOffset + ChunkStart(out, i) - UnitStart(j)
    /\ Bytes(mem, out[i]) =
          SubSeq(UnitBytes(j), ChunkStart(out, i) - UnitStart(j) + 1,
                 ChunkStart(out, i) - UnitStart(j) + out[i].len)
\* The caller's write fell, after chunk i of `op` was emitted, on a cell that
\* chunk i views.
WrittenUnder(op, out, i) ==
    \E w \in written :
        /\ i <= w.after[op]
        /\ out[i].buf = w.buf
        /\ w.idx > out[i].off /\ w.idx <= out[i].off + out[i].len

\* C9 (as claimed): every chunk of chunkFrom and chunkFromAsync whose bytes
\* all come from one input unit, a final short chunk included, is a view of
\* that unit's storage and shows the unit's bytes as they are now.
C9_Claimed_Of(out) ==
    \A i \in 1..Len(out) : \A j \in 1..Len(arg.items) :
        WithinUnit(out, i, j) => SharesUnit(out, i, j)
C9_EverySingleUnitChunkShares == C9_Claimed_Of(cf.out) /\ C9_Claimed_Of(ca.out)

\* C9 (amended): every chunk of length chunkSize whose bytes all come from
\* one input unit is a view of that unit's storage and shows the unit's bytes
\* as they are now, whatever the caller has written since; a chunk shorter
\* than chunkSize is never a view of an input: it is a view of the
\* operation's own carry buffer, which holds a copy.
C9_Of(out) ==
    \A i \in 1..Len(out) :
        /\ \A j \in 1..Len(arg.items) :
              (WithinUnit(out, i, j) /\ out[i].len = chunkSize.v)
                  => SharesUnit(out, i, j)
        /\ out[i].len < chunkSize.v => ~IsSlice(out[i])
C9_FullSingleUnitChunkShares == C9_Of(cf.out) /\ C9_Of(ca.out)
\* The caller wrote into an input under a full chunk that chunkFrom had
\* already emitted from it, and the chunk shows the written byte.
C9_Witness ==
    \E i \in 1..Len(cf.out) : \E j \in 1..Len(arg.items) : \E v \in CallerBytes :
        /\ WithinUnit(cf.out, i, j) /\ cf.out[i].len = chunkSize.v
        /\ WrittenUnder("chunkFrom", cf.out, i)
        /\ \E k \in 1..cf.out[i].len : Bytes(mem, cf.out[i])[k] = v

\* C10: every chunk of chunk, the last short one included, is a view of the
\* input's own storage at its place (chunk allocates nothing), so it shows
\* the input's bytes as they are now, whatever the caller has written since.
C10_ChunkIsView ==
    (arg.kind = "view" /\ SizeOK) =>
        /\ ch.nalloc = 0
        /\ \A i \in 1..Len(ch.out) :
              /\ ch.out[i].buf = arg.items[1].buffer
              /\ Bytes(mem, ch.out[i]) =
                    SubSeq(UnitBytes(1), (i - 1) * chunkSize.v + 1,
                           Min(i * chunkSize.v, UnitLen(1)))
\* The caller wrote into the input under the last, short chunk after chunk
\* had emitted it, and the chunk shows the written byte.
C10_Witness ==
    /\ arg.kind = "view" /\ SizeOK /\ ch.pc = "done" /\ Len(ch.out) >= 2
    /\ ch.out[Len(ch.out)].len < chunkSize.v
    /\ WrittenUnder("chunk", ch.out, Len(ch.out))
    /\ \E v \in CallerBytes : \E k \in 1..ch.out[Len(ch.out)].len :
          Bytes(mem, ch.out[Len(ch.out)])[k] = v

\* ---- C11
\* The buffer a generator keeps its pending bytes in, if it has one.
IsCarry(g, v) == g.carryBuffer # NoView /\ v.buf = g.carryBuffer.buf

\* A chunk that is a whole buffer of chunkSize bytes the generator allocated
\* for it: not the carry buffer, and no other chunk views it.
IsMerged(g, i) ==
    /\ ~IsSlice(g.out[i])
    /\ ~IsCarry(g, g.out[i])
    /\ g.out[i].off = 0
    /\ g.out[i].len = chunkSize.v
    /\ Len(mem[g.out[i].buf]) = chunkSize.v
    /\ \A j \in 1..Len(g.out) : j # i => g.out[j].buf # g.out[i].buf

\* C11 as claimed: every chunk of chunkFrom and of chunkFromAsync is a slice
\* of an input unit or a buffer allocated for it, and no chunk, the final short
\* one included, is a view of the generator's carry buffer.
C11_Claimed_Of(g) ==
    \A i \in 1..Len(g.out) : IsSlice(g.out[i]) \/ IsMerged(g, i)
C11_CarryNeverEscapes == C11_Claimed_Of(cf) /\ C11_Claimed_Of(ca)

\* C11: every chunk of chunkFrom and of chunkFromAsync is a slice of an input
\* unit, or a buffer allocated for it, or the chunk of line 83: that one is the
\* view subarray(0, carryLength) of the carry buffer itself, it is the last
\* chunk, and the generator is at or past its last yield when it is out.
C11_Of(g) ==
    \A i \in 1..Len(g.out) :
        \/ IsSlice(g.out[i])
        \/ IsMerged(g, i)
        \/ /\ IsCarry(g, g.out[i])
           /\ i = Len(g.out)
           /\ g.pc \in {"yield83", "yield149", "done"}
           /\ g.out[i] = subarray(g.carryBuffer, 0, g.carryLength)
C11_OnlyFinalChunkViewsCarry == C11_Of(cf) /\ C11_Of(ca)

\* Both generators are over; chunkFrom has yielded a slice, a merged buffer
\* and, last, a view of its carry buffer.
C11_Witness ==
    /\ cf.pc = "done" /\ ca.pc = "done"
    /\ \E i, j \in 1..Len(cf.out) : IsSlice(cf.out[i]) /\ IsMerged(cf, j)
    /\ Len(cf.out) >= 3
    /\ IsCarry(cf, cf.out[Len(cf.out)])
    /\ IsCarry(ca, ca.out[Len(ca.out)])

\* ---- C12
\* The byte values of the input buffers (MkBacking gives every input byte its
\* own value), and the copies of byte v a generator has made from `src`.
InputByteValues ==
    UNION {{mem[b][k] : k \in 1..Len(mem[b])} : b \in {x \in DOMAIN mem : x[1] = "in"}}
CopiesOf(g, v, src) == {k \in DOMAIN g.copies : g.copies[k].b = v /\ g.copies[k].src = src}
NumCopies(g, v) == Cardinality(CopiesOf(g, v, "input")) + Cardinality(CopiesOf(g, v, "carry"))
SlicedBytes(g) ==
    UNION {{Bytes(mem, g.out[i])[k] : k \in 1..g.out[i].len} :
              i \in {j \in 1..Len(g.out) : IsSlice(g.out[j])}}

\* C12 as claimed: chunkFrom and chunkFromAsync copy each input byte at most
\* once in total, into the carry buffer or into a merged chunk and never both,
\* and a byte emitted through a zero-copy slice not at all.
C12_Claimed_Of(g) ==
    /\ \A v \in InputByteValues : NumCopies(g, v) <= 1
    /\ \A v \in SlicedBytes(g) : NumCopies(g, v) = 0
C12_Of(g) ==
    /\ LET vals == InputByteValues
       IN \A k \in DOMAIN g.copies : g.copies[k].b \in vals
    /\ \A v \in InputByteValues :
          /\ Cardinality(CopiesOf(g, v, "input")) <= 1
          /\ Cardinality(CopiesOf(g, v, "carry")) <= 1
          /\ \A k \in CopiesOf(g, v, "carry") :
                /\ g.copies[k].dst = "chunk"
                /\ \E j \in CopiesOf(g, v, "input") : j < k /\ g.copies[j].dst = "carry"
    /\ \A v \in SlicedBytes(g) : NumCopies(g, v) = 0
C13_Bound(g) == Len(g.copies) <= 2 * TotalLen(g.pulled)
C13_Joins(g, h) ==
    (h.pulled = g.pulled + 1 /\ h.out = g.out) =>
        Len(h.copies) <= Len(g.copies) + UnitLen(h.pulled)
C13_LinearCopies ==
    /\ []((AllViews /\ SizeOK) =>
            /\ SyncSource => C13_Bound(cf)
            /\ AsyncSource => C13_Bound(ca))
    /\ [][(AllViews /\ SizeOK) => C13_Joins(cf, cf') /\ C13_Joins(ca, ca')]_vars

\* Both generators are over after MaxUnits units of one byte that were all
\* needed for the first chunk, and have copied more bytes than they pulled.
C13_Witness ==
    /\ cf.pc = "done" /\ ca.pc = "done"
    /\ AllViews /\ Len(arg.items) = MaxUnits /\ chunkSize.v = MaxUnits
    /\ \A i \in 1..Len(arg.items) : UnitLen(i) = 1
    /\ Len(cf.out) = 1 /\ Len(ca.out) = 1
    /\ Len(cf.copies) > TotalLen(cf.pulled)
    /\ Len(ca.copies) > TotalLen(ca.pulled)

\* ---- C14
\* The buffers a generator allocated hold the same bytes after a step.
OwnBuffersKept(owner) ==
    \A b \in DOMAIN mem : b[1] = owner => (b \in DOMAIN mem' /\ mem'[b] = mem[b])

\* C14: when the consumer closes chunkFrom or chunkFromAsync by return(), that
\* step and every later step pull no unit from the source and emit no chunk:
\* the closed generator stays as it is, pending carry included, and nothing is
\* written to its buffers.
C14_Closed(g, h, owner) ==
    /\ h.pc = "returned" =>
          /\ h.out = g.out
          /\ h.pulled = g.pulled
          /\ h.carryLength = g.carryLength
          /\ OwnBuffersKept(owner)
    /\ g.pc = "returned" => h = g
C14_Cancellation ==
    [][C14_Closed(cf, cf', "chunkFrom") /\ C14_Closed(ca, ca', "chunkFromAsync")]_vars

\* Both generators were closed at a yield with units still in the source:
\* chunkFrom at line 55 with bytes of the current unit unread and a non-zero
\* carry length, chunkFromAsync at line 135 after its second chunk.
C14_Witness ==
    /\ cf.pc = "returned" /\ ca.pc = "returned"
    /\ cf.pulled < Len(Yields(arg)) /\ ca.pulled < Len(Yields(arg))
    /\ Len(cf.out) = 1 /\ Len(ca.out) = 2
    /\ cf.carryLength > 0 /\ cf.needed < cf.buffer.len
    /\ ca.carryLength = 0 /\ ca.offset > 0

\* ---- C15
\* C15 as claimed: the only failures of chunk, chunkFrom and chunkFromAsync
\* are the argument errors (data, source, chunk size, item), and with a source of views only (for chunk,
\* a view) and a chunk size that is a positive safe integer, however large, a
\* generator that is over has run to its end.
ArgumentErrors == {"data", "source", "chunkSize", "item"}
C15_Of(g) ==
    /\ g.pc = "failed" => g.err \in ArgumentErrors
    /\ (AllViews /\ SizeOK /\ Terminal(g)) => g.pc = "done"
C15_OnlyInvalidArgument ==
    /\ ch.pc = "failed" => ch.err \in ArgumentErrors
    /\ (arg.kind = "view" /\ SizeOK /\ Terminal(ch)) => ch.pc = "done"
    /\ SyncSource => C15_Of(cf)
    /\ AsyncSource => C15_Of(ca)

\* ---- C16
\* The chunks a generator has emitted, handed on as the items of an iterable
\* (a chunk is a Uint8Array), and a generator of a later call: its buffers are
\* allocated after all those of the calls before.
AsUnit(v) ==
    [isView |-> TRUE, type |-> "Uint8Array", buffer |-> v.buf,
     byteOffset |-> v.off, byteLength |-> v.len]
ChunksOf(g) == [kind |-> "iterable", items |-> [i \in 1..Len(g.out) |-> AsUnit(g.out[i])]]
LaterGen == [Gen0 EXCEPT !.nalloc = cf.nalloc + ca.nalloc]
SameBytes(r, g) ==
    /\ r.g.pc = "done"
    /\ Len(r.g.out) = Len(g.out)
    /\ \A i \in 1..Len(g.out) :
          /\ r.g.out[i].len = g.out[i].len
          /\ Bytes(r.m, r.g.out[i]) = Bytes(mem, g.out[i])

\* C16: for views and a valid chunk size, the chunks of a completed chunkFrom
\* given to chunkFrom again with the same chunk size, and those of a completed
\* chunkFromAsync given to chunkFromAsync again, come out as many, as long and
\* with the same bytes.
C16_Idempotent ==
    (AllViews /\ SizeOK) =>
        /\ (SyncSource /\ cf.pc = "done")
              => SameBytes(chunkFrom_collect(LaterGen, mem, ChunksOf(cf)), cf)
        /\ (AsyncSource /\ ca.pc = "done")
              => SameBytes(chunkFromAsync_collect(LaterGen, mem, ChunksOf(ca)), ca)

\* Both generators are over with a slice, a merged chunk and a final short
\* chunk, and the second chunkFrom has allocated a carry buffer of its own for
\* the short chunk.
C16_Witness ==
    /\ AllViews /\ SizeOK /\ SyncSource
    /\ cf.pc = "done" /\ ca.pc = "done"
    /\ Len(cf.out) >= 3
    /\ \E i, j \in 1..Len(cf.out) : IsSlice(cf.out[i]) /\ IsMerged(cf, j)
    /\ cf.out[Len(cf.out)].len < chunkSize.v
    /\ LET r == chunkFrom_collect(LaterGen, mem, ChunksOf(cf))
       IN /\ r.g.nalloc = LaterGen.nalloc + 1
          /\ r.g.out[Len(r.g.out)].buf = r.g.carryBuffer.buf
          /\ r.g.carryBuffer.buf # cf.carryBuffer.buf

\* ---- C17
\* C17: a call of chunkFromAsync with a source that is neither iterable nor
\* async iterable, or with an invalid chunk size, returns a generator that has
\* not failed; the failure comes with its first next(), as the rejection of
\* the promise, with the source or chunk size error, before any item is pulled
\* from the source and with no chunk emitted.
InvalidAsyncCall == (~hasAsyncIterator(arg) /\ ~hasIterator(arg)) \/ ~SizeOK
C17_AsyncRejection ==
    InvalidAsyncCall =>
        /\ ca.pc \in {"start", "failed"}
        /\ (ch.pc = "start" /\ cf.pc = "start") => ca.pc = "start"
        /\ ca.pc = "failed" =>
              /\ ca.via = "reject"
              /\ ca.err \in {"source", "chunkSize"}
              /\ ca.pulled = 0
              /\ ca.out = <<>>

\* An async iterable with items and a chunk size of 0: the first next() has
\* been rejected.
C17_Witness ==
    /\ arg.kind = "asyncIterable" /\ Len(arg.items) > 0
    /\ chunkSize = [t |-> "int", v |-> 0]
    /\ ca.pc = "failed" /\ ca.via = "reject" /\ ca.err = "chunkSize"
    /\ ca.pulled = 0

\* ---- C18
\* The byte values of the input buffers that lie outside the input views, and
\* the sum of the lengths of the chunks a generator has emitted.
OutsideByteValues ==
    UNION {{mem[arg.items[i].buffer][k] :
               k \in {j \in 1..Len(mem[arg.items[i].buffer]) :
                         \/ j <= arg.items[i].byteOffset
                         \/ j > arg.items[i].byteOffset + arg.items[i].byteLength}} :
              i \in 1..Len(arg.items)}
RECURSIVE EmittedLen(_)
EmittedLen(out) == IF out = <<>> THEN 0 ELSE Head(out).len + EmittedLen(Tail(out))
InSpan(v) ==
    \E i \in 1..Len(arg.items) :
        /\ v.buf = arg.items[i].buffer
        /\ v.off >= arg.items[i].byteOffset
        /\ v.off + v.len <= arg.items[i].byteOffset + arg.items[i].byteLength

\* C18: for views of any type and byte offset and a valid chunk size, a chunk
\* that is a slice of an input buffer lies within the byte span [byteOffset,
\* byteOffset + byteLength) of a view, no chunk holds a byte of an input
\* buffer from outside the views, and a generator that has completed has
\* emitted as many bytes as the byteLength of the views add up to.
C18_Of(g) ==
    /\ \A i \in 1..Len(g.out) :
          /\ IsSlice(g.out[i]) => InSpan(g.out[i])
          /\ \A k \in 1..g.out[i].len : Bytes(mem, g.out[i])[k] \notin OutsideByteValues
    /\ g.pc = "done" => EmittedLen(g.out) = TotalLen(Len(arg.items))
C18_ByteSpan ==
    (AllViews /\ SizeOK) =>
        /\ arg.kind = "view" => C18_Of(ch)
        /\ SyncSource => C18_Of(cf)
        /\ AsyncSource => C18_Of(ca)

\* Two Uint16Array views of one element each, at byte offset 2 of buffers of
\* 6 bytes: both re-chunkers have completed with 4 bytes emitted.
C18_Witness ==
    /\ SyncSource /\ SizeOK /\ Len(arg.items) = 2
    /\ \A i \in 1..2 : /\ arg.items[i].isView /\ arg.items[i].type = "Uint16Array"
                       /\ arg.items[i].byteOffset = 2 /\ arg.items[i].byteLength = 2
                       /\ Len(mem[arg.items[i].buffer]) = 6
    /\ cf.pc = "done" /\ ca.pc = "done"
    /\ EmittedLen(cf.out) = 4 /\ EmittedLen(ca.out) = 4
    /\ OutsideByteValues # {}

\* ---- C19
\* Each generator collected alone, from the input buffers only.
AloneSync == chunkFrom_collect(Gen0, InputHeap, arg)
AloneAsync == chunkFromAsync_collect(chunkFromAsync_call(Other(arg)), InputHeap, Other(arg))
\* g, running beside another generator, has emitted what the run alone r emits
\* first, with the same bytes, and once over it ends in the state r ends in.
AsAlone(g, r) ==
    /\ Len(g.out) <= Len(r.g.out)
    /\ \A i \in 1..Len(g.out) :
          g.out[i] = r.g.out[i] /\ Bytes(mem, g.out[i]) = Bytes(r.m, r.g.out[i])
    /\ Terminal(g) => g = r.g

\* C19: chunkFrom over one source and chunkFromAsync over another, advanced in
\* any interleaving, each emit the chunks they emit when run alone; a step of
\* one changes nothing of the other generator (carry buffer, carry length,
\* output) and no byte of the other's buffers.
C19_Independent ==
    /\ [](AsAlone(cf, AloneSync) /\ AsAlone(ca, AloneAsync))
    /\ [][/\ cf' # cf => (ca' = ca /\ OwnBuffersKept("chunkFromAsync"))
          /\ ca' # ca => (cf' = cf /\ OwnBuffersKept("chunkFrom"))]_vars

\* Both generators have a carry buffer of their own with pending bytes, and
\* each has emitted a chunk already: neither ran before the other.
C19_Witness ==
    /\ cf.pc = "pull" /\ ca.pc = "await"
    /\ cf.carryLength > 0 /\ ca.carryLength > 0
    /\ cf.carryBuffer # NoView /\ ca.carryBuffer # NoView
    /\ cf.carryBuffer.buf # ca.carryBuffer.buf
    /\ Len(cf.out) >= 1 /\ Len(ca.out) >= 1
    /\ cf.pulled < Len(arg.items) /\ ca.pulled < Len(arg.items)

\* ---- C20
\* The buffers whose bytes a step changes.
Written == {b \in DOMAIN mem : b \notin DOMAIN mem' \/ mem'[b] # mem[b]}

\* C20: no step of chunk, chunkFrom or chunkFromAsync changes a byte of an
\* input buffer; a step of chunk changes no buffer, and a step of chunkFrom or
\* chunkFromAsync changes only buffers that generator has allocated itself
\* (its carry buffer and the buffers of its merged chunks).
C20_InputsNeverWritten ==
    [][/\ \A b \in Written : b[1] # "in"
       /\ ch' # ch => Written = {}
       /\ cf' # cf => \A b \in Written : b[1] = "chunkFrom"
       /\ ca' # ca => \A b \in Written : b[1] = "chunkFromAsync"]_vars

\* Both re-chunkers are over and have written: a remainder to the carry
\* buffer, a merged chunk, and a later remainder to the carry buffer again.
C20_Witness ==
    /\ cf.pc = "done" /\ ca.pc = "done"
    /\ cf.nalloc >= 2 /\ ca.nalloc >= 2
    /\ \E i, j, k \in DOMAIN cf.copies :
          /\ i < j /\ j < k
          /\ cf.copies[i].dst = "carry" /\ cf.copies[j].dst = "chunk"
          /\ cf.copies[k].dst = "carry"
    /\ Len(ca.copies) = Len(cf.copies)
    /\ \A i \in 1..Len(arg.items) : UnitBytes(i) = [j \in 1..UnitLen(i) |->
                                        10 * i + arg.items[i].byteOffset + j]

\* ---- C21
\* How far a generator is from its end: whether its first next() is still to
\* come, the items its source has left, the bytes of the current buffer
\* behind the read offset, and the place in the code; compared in that order.
PcRank(pc) ==
    CASE pc = "start" -> 9
      [] pc \in {"yield55", "yield121"} -> 8
      [] pc \in {"slices", "loop"} -> 7
      [] pc \in {"yield69", "yield135", "yield17"} -> 6
      [] pc = "pull" -> 5
      [] pc = "await" -> 4
      [] pc = "final" -> 3
      [] pc \in {"yield83", "yield149"} -> 2
      [] OTHER -> 0
Rank(g) ==
    <<IF g.pc = "start" THEN 1 ELSE 0, Len(Yields(arg)) - g.pulled,
      Max(g.buffer.len - g.offset, 0), PcRank(g.pc)>>
Less(x, y) == \E k \in 1..4 : x[k] < y[k] /\ \A j \in 1..(k - 1) : x[j] = y[j]
RankBounded(g) == \A k \in 1..4 : Rank(g)[k] >= 0
Closer(g, h) == h # g => Less(Rank(h), Rank(g))
AllOver == Terminal(ch) /\ Terminal(cf) /\ Terminal(ca)

\* C21: every step of chunk, chunkFrom and chunkFromAsync brings the generator
\* closer to its end (started, or fewer items left in the source, or fewer
\* bytes left in the buffer, or a later place in the code), a distance bounded
\* below; the next() after a yielded slice advances the read offset by the
\* chunk size, which is at least 1; as long as a generator is not over a step
\* is possible; and with views and a valid chunk size a generator that is over
\* has signalled the end of the sequence.
C21_Terminates ==
    /\ [](RankBounded(ch) /\ RankBounded(cf) /\ RankBounded(ca))
    /\ [][Closer(ch, ch') /\ Closer(cf, cf') /\ Closer(ca, ca')]_vars
    /\ [][/\ (ch.pc = "yield17" /\ ch' # ch) => ch'.offset >= ch.offset + 1
          /\ (cf.pc = "yield69" /\ cf' # cf) => cf'.offset >= cf.offset + 1
          /\ (ca.pc = "yield135" /\ ca' # ca) => ca'.offset >= ca.offset + 1]_vars
    /\ []((~ENABLED Next) => AllOver)
    /\ [](SizeOK =>
            /\ (arg.kind = "view" /\ Terminal(ch)) => ch.pc = "done"
            /\ (AllViews /\ SyncSource /\ Terminal(cf)) => cf.pc = "done"
            /\ (AllViews /\ AsyncSource /\ Terminal(ca)) => ca.pc = "done")

\* All three generators are over and no step is left; the two re-chunkers
\* have ended the sequence after MaxUnits units and three chunks or more.
C21_Witness ==
    /\ AllOver /\ ~ENABLED Next
    /\ cf.pc = "done" /\ ca.pc = "done"
    /\ cf.pulled = MaxUnits /\ ca.pulled = MaxUnits
    /\ Len(cf.out) >= 3 /\ Len(ca.out) >= 3

\* ---- C22
IsReadmeCall ==
    /\ chunkSize = [t |-> "int", v |-> ReadmeChunkSize]
    /\ arg.kind = "iterable" /\ Len(arg.items) = Len(ReadmeBuffers)
    /\ \A i \in 1..Len(arg.items) :
          arg.items[i].isView /\ arg.items[i].byteLength = ReadmeBuffers[i]
LengthsOf(out) == [i \in 1..Len(out) |-> out[i].len]

C23_Of(g) ==
    /\ g.carryLength >= 0
    /\ SizeOK => g.carryLength <= chunkSize.v - 1
    /\ g.carryBuffer # NoView =>
          /\ g.carryBuffer.off = 0
          /\ g.carryBuffer.len = chunkSize.v
          /\ Len(mem[g.carryBuffer.buf]) = chunkSize.v
    /\ g.err \notin {"RangeError", "TypeError"}
C23_CarryBound == C23_Of(cf) /\ C23_Of(ca)

\* chunkFromAsync has joined a second unit to the carry, which now holds
\* chunkSize - 1 bytes, the most it can, and awaits a third.
C23_Witness ==
    /\ chunkSize.t = "int" /\ chunkSize.v = MaxChunk
    /\ ca.pc = "await" /\ ca.pulled = 2 /\ ca.out = <<>>
    /\ ca.carryLength = chunkSize.v - 1
    /\ cf.carryLength = chunkSize.v - 1

\* ---- C24
\* The places where a generator turns to its source: before asking for the
\* next item, while waiting for it, and on seeing the end.
AtSource(g) == g.pc \in {"pull", "await", "final"}

\* C24: whenever chunkFrom or chunkFromAsync turns to its source for the next
\* item, or has seen its end, the bytes of the units pulled so far have all
\* been emitted, in order, except the last carryLength of them; these are
\* fewer than chunkSize and are the first carryLength bytes of the carry
\* buffer.
C24_Of(g) ==
    AtSource(g) =>
        LET pulled == InputBytes(g.pulled)
            emitted == Read(g.out)
        IN  /\ Len(pulled) - Len(emitted) = g.carryLength
            /\ g.carryLength < chunkSize.v
            /\ emitted = SubSeq(pulled, 1, Len(emitted))
            /\ g.carryLength > 0 =>
                  Bytes(mem, subarray(g.carryBuffer, 0, g.carryLength))
                      = SubSeq(pulled, Len(emitted) + 1, Len(pulled))
C24_BoundedBuffering == C24_Of(cf) /\ C24_Of(ca)

\* chunkFromAsync waits for its third unit with two chunks emitted and a
\* remainder in the carry buffer.
C24_Witness ==
    /\ ca.pc = "await" /\ ca.pulled = 2
    /\ Len(ca.out) = 2
    /\ ca.carryLength > 0
    /\ Len(arg.items) = 3

\* ---- C25
\* A unit that is a view of no bytes.
IsEmptyUnit(u) == isView(u) /\ toUint8Array(u).len = 0

\* The source without its zero-length units.
WithoutEmpty(a) ==
    [a EXCEPT !.items = SelectSeq(@, LAMBDA u : ~IsEmptyUnit(u))]

\* The generator, turned to its source at `at`, is handed a zero-length unit
\* in this step.
TakesEmptyUnit(g, h, at) ==
    /\ g.pc = at
    /\ g.pulled < Len(Yields(arg))
    /\ IsEmptyUnit(Yields(arg)[g.pulled + 1])
    /\ h.pulled = g.pulled + 1

\* What a zero-length unit leaves alone: the pending length, the carry buffer
\* and every buffer's contents, and the chunks emitted; the generator turns to
\* its source again.
Skipped(g, h) ==
    /\ h.carryLength = g.carryLength
    /\ h.carryBuffer = g.carryBuffer
    /\ mem' = mem
    /\ h.out = g.out
    /\ h.pc = "pull"

\* Two runs end the same way with the same chunks.
SameRun(g, h) == g.pc = h.pc /\ g.err = h.err /\ g.out = h.out

\* C25: a zero-length unit is skipped: the step that takes it changes neither
\* carryLength, nor the carry buffer or any buffer's contents, nor the chunks
\* emitted, with or without a partial chunk pending; and a run that has ended
\* has ended as the run over the same source without its zero-length units
\* does, with the same chunks.
C25_EmptyUnitsSkipped ==
    /\ [][TakesEmptyUnit(cf, cf', "pull") => Skipped(cf, cf')]_vars
    /\ [][TakesEmptyUnit(ca, ca', "await") => Skipped(ca, ca')]_vars
    /\ []((SyncSource /\ Terminal(cf) /\ ca.pc = "start") =>
             SameRun(cf, chunkFrom_collect(Gen0, InputHeap, WithoutEmpty(arg)).g))
    /\ []((AsyncSource /\ Terminal(ca)) =>
             SameRun(ca, chunkFromAsync_collect(Gen0, InputHeap, WithoutEmpty(arg)).g))

\* chunkFromAsync has completed over a source whose second unit has no bytes
\* and arrived while one byte of a chunk of two was pending; the third unit
\* completed the chunk.
C25_Witness ==
    /\ SizeOK /\ chunkSize.v = 2
    /\ Len(arg.items) = 3 /\ AllViews
    /\ UnitLen(1) = 1 /\ UnitLen(2) = 0 /\ UnitLen(3) = 1
    /\ ca.pc = "done" /\ Len(ca.out) = 1 /\ ca.pulled = 3
    /\ Read(ca.out) = InputBytes(3)

\* ---- C26
\* The requests chunkFromAsync has made to its source that are not answered.
Outstanding(g) == g.asked - g.answered

\* A chunk has been produced and the consumer has not asked for the next.
AtYield(g) == g.pc \in {"yield121", "yield135", "yield149"}

\* C26: chunkFromAsync has at most one request to its source outstanding, and
\* has one exactly while it waits for an input unit; while a produced chunk
\* waits for the consumer no request is outstanding, and the step the
\* consumer's next() starts issues none before the loop head is reached; a
\* chunk is appended exactly by the steps that end at a yield, one chunk each.
C26_Alternation ==
    /\ [](Outstanding(ca) \in {0, 1})
    /\ []((Outstanding(ca) = 1) <=> (ca.pc = "await"))
    /\ [](AtYield(ca) => Outstanding(ca) = 0)
    /\ [][AtYield(ca) => ca'.asked = ca.asked]_vars
    /\ [][ca'.asked # ca.asked =>
             ca.pc = "pull" /\ ca'.pc = "await" /\ ca'.asked = ca.asked + 1]_vars
    /\ [][ca' # ca =>
             IF AtYield(ca') THEN Len(ca'.out) = Len(ca.out) + 1
                             ELSE ca'.out = ca.out]_vars

\* chunkFromAsync waits for its third unit: three requests made, two answered,
\* two chunks produced and accepted in between.
C26_Witness ==
    /\ ca.pc = "await"
    /\ ca.asked = 3 /\ ca.answered = 2
    /\ Len(ca.out) = 2

\* ---- C27
\* In the slice loop of lines 68-70 (134-136): at its test, or at its yield.
InSliceLoop(g) == g.pc \in {"slices", "yield69", "yield135"}

\* This step writes the remainder of the current unit to the carry buffer
\* (lines 73-79, 139-145).
WritesRemainder(g, h) == g.pc = "slices" /\ h.pc = "pull" /\ h.carryLength > 0

\* C27: in the slice loop carryLength is 0, and at its test every byte pulled
\* and not yet emitted lies in the current unit from `offset` on; so the step
\* that writes a remainder at offset 0 of the carry buffer starts with
\* carryLength 0, overwrites no pending byte, and leaves the carry buffer
\* holding exactly the bytes pulled and not emitted.
C27_Of(g) ==
    /\ InSliceLoop(g) => g.carryLength = 0
    /\ g.pc = "slices" =>
          /\ g.offset <= g.buffer.len
          /\ TotalLen(g.pulled) - EmittedLen(g.out) = g.buffer.len - g.offset
C27_Step(g, h) ==
    WritesRemainder(g, h) =>
        LET pulled == InputBytes(g.pulled)
        IN  /\ g.carryLength = 0
            /\ h.carryLength = g.buffer.len - g.offset
            /\ Bytes(mem', subarray(h.carryBuffer, 0, h.carryLength))
                  = SubSeq(pulled, Len(pulled) - h.carryLength + 1, Len(pulled))
            /\ Read(g.out) = SubSeq(pulled, 1, Len(pulled) - h.carryLength)
C27_RemainderWrite ==
    /\ [](C27_Of(cf) /\ C27_Of(ca))
    /\ [][C27_Step(cf, cf')]_vars
    /\ [][C27_Step(ca, ca')]_vars

\* chunkFrom has merged a carried byte with the head of its second unit, then
\* written that unit's remainder over the carry buffer; chunkFromAsync is about
\* to do the same.
C27_Witness ==
    /\ cf.pc = "done" /\ Len(cf.out) >= 2
    /\ ~IsSlice(cf.out[1])
    /\ ca.pc = "slices" /\ ca.pulled = 2 /\ ca.offset > 0
    /\ ca.carryBuffer # NoView
    /\ ca.offset < ca.buffer.len /\ ca.buffer.len < ca.offset + chunkSize.v

\* ---- C28
\* The final chunk, if any, has been emitted: the generator is at the yield of
\* line 83 (149) or has returned after it.
PastFinal(g) == g.pc \in {"yield83", "yield149", "done"}

\* This step leaves the generator's chunks, its carry buffer and that buffer's
\* bytes alone, copies nothing, and takes nothing from the source.
Quiet(g, h) ==
    /\ h.out = g.out
    /\ h.pulled = g.pulled /\ h.asked = g.asked
    /\ h.copies = g.copies
    /\ h.carryBuffer = g.carryBuffer /\ h.carryLength = g.carryLength
    /\ g.carryBuffer # NoView => mem'[g.carryBuffer.buf] = mem[g.carryBuffer.buf]

\* This step leaves the bytes of every chunk emitted before it as they were.
ChunksKept(g) == \A i \in 1..Len(g.out) : Bytes(mem', g.out[i]) = Bytes(mem, g.out[i])

\* C28: once chunkFrom or chunkFromAsync is past its final yield, no step
\* writes the carry buffer, emits a chunk or pulls from the source; and no
\* step of either ever changes the bytes of a chunk emitted before it, be it
\* a merged copy, a slice of an input unit or the final view of the carry
\* buffer.
C28_ChunksKept ==
    /\ [][PastFinal(cf) => Quiet(cf, cf')]_vars
    /\ [][PastFinal(ca) => Quiet(ca, ca')]_vars
    /\ [][ChunksKept(cf) /\ ChunksKept(ca)]_vars

\* chunkFromAsync has returned after two merged chunks, and a final chunk that
\* is a view of its carry buffer; chunkFrom ended the same way before it.
C28_Witness ==
    /\ ca.pc = "done" /\ Len(ca.out) = 3
    /\ ~IsSlice(ca.out[1]) /\ ~IsSlice(ca.out[2])
    /\ ca.out[1].buf # ca.out[2].buf
    /\ ca.out[3].buf = ca.carryBuffer.buf
    /\ cf.pc = "done" /\ cf.out[Len(cf.out)].buf = cf.carryBuffer.buf

\* ---- C29
\* The buffers an operation has allocated, and those it has emitted whole as
\* merged chunks.
OwnBuffers(owner) == {b \in DOMAIN mem : b[1] = owner}
MergedBuffers(g) == {g.out[i].buf : i \in {j \in 1..Len(g.out) : IsMerged(g, j)}}

\* Every non-empty unit pulled so far has a length that is a multiple of
\* chunkSize.
AllMultiples(g) == \A i \in 1..g.pulled : UnitLen(i) % chunkSize.v = 0

\* The carry buffer is allocated in this step.
AllocatesCarry(g, h) == g.carryBuffer = NoView /\ h.carryBuffer # NoView

\* Besides its merged chunks a generator has allocated nothing but its carry
\* buffer, of chunkSize bytes, and has none while every unit was a multiple of
\* chunkSize.
C29_Of(g, owner) ==
    /\ OwnBuffers(owner) \ MergedBuffers(g)
          = IF g.carryBuffer = NoView THEN {} ELSE {g.carryBuffer.buf}
    /\ g.carryBuffer # NoView =>
          /\ g.carryBuffer = Whole(g.carryBuffer.buf, chunkSize.v)
          /\ Len(mem[g.carryBuffer.buf]) = chunkSize.v
    /\ (SizeOK /\ g.pc # "start" /\ AllMultiples(g)) => g.carryBuffer = NoView

\* The carry buffer is allocated by the step that has a first remainder to
\* store, non-empty and shorter than chunkSize, and is the same buffer ever
\* after.
C29_Step(g, h) ==
    /\ AllocatesCarry(g, h) =>
          /\ g.pc = "slices" /\ h.pc = "pull"
          /\ h.carryLength = g.buffer.len - g.offset
          /\ 0 < h.carryLength /\ h.carryLength < chunkSize.v
          /\ h.carryBuffer.buf \notin DOMAIN mem
          /\ \A i \in 1..Len(g.out) : IsSlice(g.out[i])
    /\ g.carryBuffer # NoView => h.carryBuffer = g.carryBuffer

\* C29: chunkFrom and chunkFromAsync allocate their carry buffer at most once,
\* with chunkSize bytes, in the step that stores the first non-empty remainder
\* shorter than chunkSize; not while every unit pulled was a multiple of
\* chunkSize; and never replace it.
C29_CarryAllocation ==
    /\ [](C29_Of(cf, "chunkFrom") /\ C29_Of(ca, "chunkFromAsync"))
    /\ [][C29_Step(cf, cf')]_vars
    /\ [][C29_Step(ca, ca')]_vars

\* chunkFromAsync has stored a second remainder in the carry buffer it
\* allocated for its first unit, after a merged chunk; chunkFrom did the same.
C29_Witness ==
    /\ ca.pc = "pull" /\ ca.pulled = 2 /\ ca.carryLength > 0
    /\ Len(ca.out) = 1 /\ IsMerged(ca, 1)
    /\ ca.carryBuffer.buf = <<"chunkFromAsync", 1>>
    /\ cf.carryBuffer.buf = <<"chunkFrom", 1>>

\* ---- C30
\* C30: between input units, that is whenever chunkFrom or chunkFromAsync is
\* at its loop head, waits for the next unit or has seen the end, with T the
\* byte length of the units pulled so far and c the chunk size: T div c chunks
\* have been emitted, each of c bytes, carryLength is T mod c, and the first
\* carryLength bytes of the carry buffer are the last T mod c bytes of the
\* units pulled.
C30_Of(g) ==
    AtSource(g) =>
        LET T == TotalLen(g.pulled)
            c == chunkSize.v
        IN  /\ Len(g.out) = T \div c
            /\ \A i \in 1..Len(g.out) : g.out[i].len = c
            /\ g.carryLength = T % c
            /\ T % c > 0 =>
                  Bytes(mem, subarray(g.carryBuffer, 0, T % c))
                      = SubSeq(InputBytes(g.pulled), T - (T % c) + 1, T)
C30_Progress == C30_Of(cf) /\ C30_Of(ca)

\* chunkFrom is at its loop head with three units pulled, two of them short
\* ones gathered in the carry buffer, one chunk emitted and a remainder kept;
\* chunkFromAsync has not started.
C30_Witness ==
    /\ cf.pc = "pull" /\ cf.pulled = 3
    /\ SizeOK /\ chunkSize.v = 3
    /\ UnitLen(1) = 1 /\ UnitLen(2) = 1 /\ UnitLen(3) = 2
    /\ Len(cf.out) = 1 /\ cf.carryLength = 1
    /\ ca.pc = "start"

\* ---- C31
\* C31: in every state of chunkFrom and of chunkFromAsync, carryLength > 0
\* implies that the carry buffer has been allocated and is on the heap; so the
\* merge of lines 53-54, the accumulation of line 61 and the final emission of
\* line 83 (and their async twins) never use an unallocated buffer, which
\* would be a TypeError.
C31_Of(g) ==
    /\ g.carryLength > 0 =>
          /\ g.carryBuffer # NoView
          /\ g.carryBuffer.buf \in DOMAIN mem
    /\ g.err # "TypeError"
C31_AllocatedBeforeUse == C31_Of(cf) /\ C31_Of(ca)

\* chunkFrom has accumulated a short unit in its carry buffer, merged it into a
\* chunk and emitted a final view of the buffer; chunkFromAsync is at the
\* yield of its merged chunk, which it filled from the carry buffer.
C31_Witness ==
    /\ cf.pc = "done" /\ cf.pulled = 3
    /\ UnitLen(1) = 1 /\ UnitLen(2) = 1
    /\ Len(cf.out) = 2 /\ IsCarry(cf, cf.out[2])
    /\ ca.pc = "yield121" /\ ca.carryLength = 2
    /\ ca.carryBuffer # NoView

====
